---------------------------- MODULE Spec2Model ----------------------------
(***************************************************************************)
(* Model of windows-mcp-server: the sliding-window RateLimiter, the        *)
(* PathValidator / Sandbox path policy, and the JSON-RPC message pipeline  *)
(* (MCPServer.handle_message -> ProtocolHandler.handle_request).           *)
(*                                                                         *)
(* The specifications share the variables:                                 *)
(*   SpecRL, SpecReset - security/rate_limiter.py on its own               *)
(*   SpecPath   - security/sandbox.py: PathValidator and check_file_access *)
(*   SpecPolicy - security/sandbox.py: process and registry checks         *)
(*   Spec       - server.py + protocol/handler.py + tools/registry.py      *)
(*   SpecAuth   - security/auth.py: Authenticator                          *)
(*   SpecHttp   - server.py: the HTTP transport's POST handler             *)
(*   SpecStdio, SpecStdioFair - server.py: the stdio reader loop           *)
(*   SpecRegistry - tools/registry.py: the table of tool instances         *)
(*   SpecCancel - protocol/handler.py: requests in flight and cancellation *)
(*   SpecThreads - security/rate_limiter.py: is_allowed called from threads*)
(***************************************************************************)
EXTENDS Integers, Sequences, FiniteSets, TLC

VARIABLES
    now,          \* time.time(), in whole ticks
    buckets,      \* RateLimiter._buckets: client_id -> list of timestamps
    rlRet,        \* the last RateLimiter call and what it returned
    wasReset,     \* the clients whose history starts at a reset (kept by SpecReset only)
    hist,         \* per client: the is_allowed calls of the first window since construction / reset
    solo,         \* per client b: a second RateLimiter that sees only b's calls
    soloRet,      \* what the caller's own solo limiter returned to the last call
    allowed_paths,  \* PathValidator.allowed_paths (resolved at construction)
    blocked_paths,  \* PathValidator.blocked_paths (resolved at construction)
    enabled,      \* Sandbox.enabled = settings.sandbox_mode
    pvCall,       \* the sandbox call in progress and its outcome, NoCall when idle
    initialized,  \* ProtocolHandler._initialized
    client_capabilities,  \* ProtocolHandler._client_capabilities
    pending_requests,     \* ProtocolHandler._pending_requests (request ids)
    tools,        \* ToolRegistry._tools (the registered names)
    msg,          \* the message handle_message was called with
    reply,        \* what handle_message returned for it, and how it got there
    require_auth, \* settings.security.require_auth
    api_keys,     \* Authenticator._api_keys: key -> client_id
    authRet,      \* the Authenticator call in progress and what it returned
    http,         \* the HTTP exchange in progress: credentials, auth result, status
    lastWrite,    \* per key: the add / generate not yet undone by a remove, as (key, client)
    allow_process_management,  \* settings.allow_process_management
    allow_registry_access,     \* settings.allow_registry_access
    sbCall,       \* the process / registry check in progress and its outcome
    registry,     \* ToolRegistry._tools as a table: name -> the tool instance registered
    lastRegistered,  \* per name: the register not yet undone by an unregister, as (name, version)
    regCall,      \* the ToolRegistry call in progress and its outcome
    inflight,     \* ids of the requests received whose handler has not finished
    cancel_requested,  \* ids of the requests whose task had cancel() called on it
    cxCall,       \* the last step of the concurrent requests: begin, finish or cancelled
    states,       \* the RateLimitState objects created so far, by identity: requests and lock holder
    bucket_refs,  \* RateLimiter._buckets as the threads see it: client_id -> RateLimitState object
    threads,      \* per thread: where its is_allowed call stands, its `now` and its `state`
    admitted,     \* the is_allowed calls of the threads that returned True, in order
    running,      \* MCPServer._running
    stdin,        \* the stdio input stream: what was sent, how much was read, closed or not
    stdout,       \* what _run_stdio wrote, line by line
    loop,         \* where _run_stdio stands, and its content_length
    served        \* the bodies _run_stdio handed to handle_message, and what it wrote for each

rlVars == <<now, buckets, rlRet, hist, wasReset, solo, soloRet>>

pvVars == <<allowed_paths, blocked_paths, enabled, pvCall>>

hdVars == <<initialized, client_capabilities, pending_requests, tools>>

srvVars == <<initialized, client_capabilities, pending_requests, tools, msg, reply>>

authVars == <<require_auth, api_keys, authRet, http, lastWrite>>

polVars == <<allow_process_management, allow_registry_access, sbCall>>

ioVars == <<running, stdin, stdout, loop, served>>

regVars == <<registry, lastRegistered, regCall>>

cxVars == <<inflight, cancel_requested, cxCall>>

thVars == <<states, bucket_refs, threads, admitted>>

vars == <<now, buckets, rlRet, hist, wasReset, solo, soloRet,
          allowed_paths, blocked_paths, enabled, pvCall,
          initialized, client_capabilities, pending_requests, tools, msg, reply,
          require_auth, api_keys, authRet, http, lastWrite,
          allow_process_management, allow_registry_access, sbCall,
          registry, lastRegistered, regCall,
          inflight, cancel_requested, cxCall,
          states, bucket_refs, threads, admitted,
          running, stdin, stdout, loop, served>>

None == "None"

(***************************************************************************)
(* Bounds and configuration                                                *)
(***************************************************************************)
\* settings.rate_limit_requests, scaled down
MaxRequests == 2
\* settings.rate_limit_window, scaled down (ticks)
WindowSeconds == 2
\* the clock stops advancing here
MaxTime == 3
\* clock ticks per second: time.time() is finer than the whole seconds a
\* message text shows
TicksPerSecond == 2

Clients == {"client1", "client2"}

\* how many is_allowed calls per client the history keeps
MaxHist == MaxRequests + 1

Max(a, b) == IF a >= b THEN a ELSE b

RECURSIVE SeqMin(_)
SeqMin(s) == IF Len(s) = 1 THEN s[1] ELSE
             LET m == SeqMin(Tail(s)) IN IF s[1] <= m THEN s[1] ELSE m

(***************************************************************************)
(* security/rate_limiter.py                                                *)
(***************************************************************************)
\* RateLimitState.requests of a client; defaultdict: absent means a fresh state
Requests(bk, c) == IF c \in DOMAIN bk THEN bk[c] ELSE <<>>

\* state = self._buckets[client_id]: the defaultdict creates the bucket
Touch(bk, c) == IF c \in DOMAIN bk THEN bk ELSE bk @@ (c :> <<>>)

\* mutant: a timestamp exactly window_seconds old is still counted
Unexpired_inclusive(reqs, t) == SelectSeq(reqs, LAMBDA ts : ts >= t - WindowSeconds)

\* [ts for ts in state.requests if ts > cutoff], cutoff = now - window_seconds
Unexpired(reqs, t) == SelectSeq(reqs, LAMBDA ts : ts > t - WindowSeconds)

\* mutant: the limit test is off by one (> instead of >=)
is_allowed_offbyone(bk, c, t) ==
    LET kept == Unexpired(Requests(bk, c), t) IN
    IF Len(kept) > MaxRequests
    THEN [ret |-> FALSE, buckets |-> [Touch(bk, c) EXCEPT ![c] = kept]]
    ELSE [ret |-> TRUE,  buckets |-> [Touch(bk, c) EXCEPT ![c] = Append(kept, t)]]

\* mutant: one quota shared by all clients
is_allowed_shared(bk, c, t) ==
    LET kept == Unexpired(Requests(bk, c), t)
        all  == {<<d, i>> \in (DOMAIN bk) \X (1..(MaxHist + MaxTime + MaxRequests)) :
                    i <= Len(Unexpired(bk[d], t))}
    IN
    IF Cardinality(all) >= MaxRequests
    THEN [ret |-> FALSE, buckets |-> [Touch(bk, c) EXCEPT ![c] = kept]]
    ELSE [ret |-> TRUE,  buckets |-> [Touch(bk, c) EXCEPT ![c] = Append(kept, t)]]

\* mutant: a rejected call takes the place of the oldest recorded one
is_allowed_postpones(bk, c, t) ==
    LET kept == Unexpired(Requests(bk, c), t) IN
    IF Len(kept) >= MaxRequests
    THEN [ret |-> FALSE, buckets |-> [Touch(bk, c) EXCEPT ![c] = Append(Tail(kept), t)]]
    ELSE [ret |-> TRUE,  buckets |-> [Touch(bk, c) EXCEPT ![c] = Append(kept, t)]]

\* RateLimiter.is_allowed: prune, reject without recording at the limit, else record
is_allowed(bk, c, t) ==
    LET kept == Unexpired(Requests(bk, c), t) IN
    IF Len(kept) >= MaxRequests
    THEN [ret |-> FALSE, buckets |-> [Touch(bk, c) EXCEPT ![c] = kept]]
    ELSE [ret |-> TRUE,  buckets |-> [Touch(bk, c) EXCEPT ![c] = Append(kept, t)]]

\* RateLimiter.get_remaining: counts without pruning the stored list
get_remaining(bk, c, t) ==
    [ret |-> Max(0, MaxRequests - Len(Unexpired(Requests(bk, c), t))),
     buckets |-> Touch(bk, c)]

\* RateLimiter.get_reset_time: seconds until the oldest retained timestamp expires
get_reset_time(bk, c, t) ==
    LET valid == Unexpired(Requests(bk, c), t) IN
    [ret |-> IF valid = <<>> THEN 0 ELSE Max(0, SeqMin(valid) + WindowSeconds - t),
     buckets |-> Touch(bk, c)]

\* mutant: reset forgets only the oldest timestamp
reset_dropsoldest(bk, c) ==
    [Touch(bk, c) EXCEPT ![c] = IF @ = <<>> THEN <<>> ELSE Tail(@)]

\* mutant: reset clears every bucket there is
reset_everyone(bk, c) == [d \in DOMAIN Touch(bk, c) |-> <<>>]

\* RateLimiter.reset: state.requests.clear()
reset(bk, c) == [Touch(bk, c) EXCEPT ![c] = <<>>]

\* RateLimiter.reset_all: reset every client that has a bucket
reset_all(bk) == [c \in DOMAIN bk |-> <<>>]

EmptyBuckets == [c \in {} |-> <<>>]

\* the history keeps the first MaxHist calls, and of those only the calls made
\* within one window of the first one
Record(h, t, r) ==
    IF Len(h) < MaxHist /\ (h = <<>> \/ t - h[1].at < WindowSeconds)
    THEN Append(h, [at |-> t, ok |-> r])
    ELSE h

\* no sandbox call in progress
NoCall == [fn |-> "idle", path |-> <<>>, op |-> None, out |-> [kind |-> "idle", val |-> None]]

\* the sandbox, when a specification does not exercise it
PVIdle ==
    /\ allowed_paths = <<>>
    /\ blocked_paths = <<>>
    /\ enabled = TRUE
    /\ pvCall = NoCall

\* a new RateLimiter: no buckets, nothing returned yet
RLIdle ==
    /\ now = 0
    /\ buckets = EmptyBuckets
    /\ rlRet = [op |-> "init", client |-> None, ret |-> None]
    /\ hist = [c \in Clients |-> <<>>]
    /\ wasReset = {}
    /\ solo = [c \in Clients |-> EmptyBuckets]
    /\ soloRet = None

\* ToolRegistry.create_default: the names registered at start-up
DefaultTools == {"read_file"}

\* no message being handled, no reply waiting to be written
NoMsg == [kind |-> "idle", items |-> <<>>]

NoReply == [kind |-> "idle", responses |-> <<>>, trace |-> <<>>, admitted |-> FALSE,
            client |-> None, at |-> 0]

\* a new MCPServer and ProtocolHandler: not initialized, nothing pending
SrvIdle ==
    /\ initialized = FALSE
    /\ client_capabilities = "empty"
    /\ pending_requests = {}
    /\ tools = DefaultTools
    /\ msg = NoMsg
    /\ reply = NoReply

\* an optional string (a header, an argument): None, or a string given as
\* the sequence of its parts
Absent == [present |-> FALSE, s |-> <<>>]
Str(s) == [present |-> TRUE, s |-> s]

\* no Authenticator call in progress, no HTTP exchange in progress
NoAuthCall == [op |-> "idle", api_key |-> Absent, bearer_token |-> Absent,
               authenticated |-> FALSE, client_id |-> None, error |-> None]

NoHttp == [status |-> 0, api_key |-> Absent, bearer |-> Absent, checked |-> FALSE,
           authenticated |-> FALSE, client_id |-> None, code |-> 0, error |-> None,
           handled |-> FALSE, before |-> <<>>]

\* the Authenticator, when a specification does not exercise it
AuthIdle ==
    /\ require_auth = FALSE
    /\ api_keys = <<>>
    /\ authRet = NoAuthCall
    /\ http = NoHttp
    /\ lastWrite = {}

\* no process or registry check in progress
NoCheck == [fn |-> "idle", operation |-> None, target |-> Absent, out |-> None]

\* the remaining Sandbox settings at their defaults, no check in progress
PolIdle ==
    /\ allow_process_management = TRUE
    /\ allow_registry_access = TRUE
    /\ sbCall = NoCheck

\* no ToolRegistry call in progress
NoRegCall == [op |-> "idle", name |-> None, arguments |-> None, version |-> 0,
              ret |-> FALSE,
              result |-> [raised |-> "none", success |-> FALSE, data |-> "none", error |-> ""]]

\* a new ToolRegistry, when a specification does not exercise it
RegIdle ==
    /\ registry = <<>>
    /\ lastRegistered = {}
    /\ regCall = NoRegCall

\* no request in flight
NoCxCall == [op |-> "idle", id |-> None]

\* the handler, when a specification does not run requests side by side
CxIdle ==
    /\ inflight = {}
    /\ cancel_requested = {}
    /\ cxCall = NoCxCall

\* the threads that call one RateLimiter side by side
Threads == {"t1", "t2"}

\* `state` of a thread that has not looked its bucket up yet
NoState == 0

\* a thread outside is_allowed
NoThreadCall == [pc |-> "idle", client |-> None, now |-> 0, state |-> NoState, calls |-> 0]

\* a new RateLimiter that no thread has called
ThIdle ==
    /\ states = <<>>
    /\ bucket_refs = EmptyBuckets
    /\ threads = [th \in Threads |-> NoThreadCall]
    /\ admitted = <<>>

\* _run_stdio before start(): nothing sent, nothing read, nothing written
NoInput == [sent |-> <<>>, read |-> 0, closed |-> FALSE]

NotStarted == [pc |-> "idle", content_length |-> 0, polls |-> 0, exit |-> None]

IoIdle ==
    /\ running = FALSE
    /\ stdin = NoInput
    /\ stdout = <<>>
    /\ loop = NotStarted
    /\ served = <<>>

RLInit ==
    /\ PVIdle
    /\ SrvIdle
    /\ AuthIdle
    /\ PolIdle
    /\ RegIdle
    /\ CxIdle
    /\ ThIdle
    /\ IoIdle
    /\ RLIdle

\* the clock advances between calls
Tick ==
    /\ now < MaxTime
    /\ now' = now + 1
    /\ UNCHANGED <<buckets, rlRet, hist, wasReset, solo, soloRet, pvVars, srvVars, authVars, polVars, regVars, cxVars, thVars, ioVars>>

RLIsAllowed(c) ==
    LET r == is_allowed(buckets, c, now)
        s == is_allowed(solo[c], c, now)
    IN
    /\ buckets' = r.buckets
    /\ rlRet' = [op |-> "is_allowed", client |-> c, ret |-> r.ret]
    /\ hist' = [hist EXCEPT ![c] = Record(@, now, r.ret)]
    /\ solo' = [solo EXCEPT ![c] = s.buckets]
    /\ soloRet' = s.ret
    /\ UNCHANGED <<now, wasReset, pvVars, srvVars, authVars, polVars, regVars, cxVars, thVars, ioVars>>

RLGetRemaining(c) ==
    LET r == get_remaining(buckets, c, now)
        s == get_remaining(solo[c], c, now)
    IN
    /\ buckets' = r.buckets
    /\ rlRet' = [op |-> "get_remaining", client |-> c, ret |-> r.ret]
    /\ solo' = [solo EXCEPT ![c] = s.buckets]
    /\ soloRet' = s.ret
    /\ UNCHANGED <<now, hist, wasReset, pvVars, srvVars, authVars, polVars, regVars, cxVars, thVars, ioVars>>

RLGetResetTime(c) ==
    LET r == get_reset_time(buckets, c, now)
        s == get_reset_time(solo[c], c, now)
    IN
    /\ buckets' = r.buckets
    /\ rlRet' = [op |-> "get_reset_time", client |-> c, ret |-> r.ret]
    /\ solo' = [solo EXCEPT ![c] = s.buckets]
    /\ soloRet' = s.ret
    /\ UNCHANGED <<now, hist, wasReset, pvVars, srvVars, authVars, polVars, regVars, cxVars, thVars, ioVars>>

ResetStep(c) ==
    /\ buckets' = reset(buckets, c)
    /\ rlRet' = [op |-> "reset", client |-> c, ret |-> None]
    /\ hist' = [hist EXCEPT ![c] = <<>>]
    /\ solo' = [solo EXCEPT ![c] = reset(@, c)]
    /\ soloRet' = None
    /\ UNCHANGED <<now, pvVars, srvVars, authVars, polVars, regVars, cxVars, thVars, ioVars>>

ResetAllStep ==
    /\ buckets' = reset_all(buckets)
    /\ rlRet' = [op |-> "reset_all", client |-> None, ret |-> None]
    /\ hist' = [c \in Clients |-> IF c \in DOMAIN buckets THEN <<>> ELSE hist[c]]
    /\ solo' = [c \in Clients |-> reset_all(solo[c])]
    /\ soloRet' = None
    /\ UNCHANGED <<now, pvVars, srvVars, authVars, polVars, regVars, cxVars, thVars, ioVars>>

RLReset(c) == ResetStep(c) /\ UNCHANGED wasReset

RLResetAll == ResetAllStep /\ UNCHANGED wasReset

RLNext ==
    \/ Tick
    \/ \E c \in Clients : RLIsAllowed(c)
    \/ \E c \in Clients : RLGetRemaining(c)
    \/ \E c \in Clients : RLGetResetTime(c)
    \/ \E c \in Clients : RLReset(c)
    \/ RLResetAll

SpecRL == RLInit /\ [][RLNext]_vars

\* the limiter under admissions and resets only, remembering who was reset
RLResetMarked(c) == ResetStep(c) /\ wasReset' = wasReset \cup {c}

RLResetAllMarked == ResetAllStep /\ wasReset' = wasReset \cup (Clients \cap DOMAIN buckets)

ResetNext ==
    \/ Tick
    \/ \E c \in Clients : RLIsAllowed(c)
    \/ \E c \in Clients : RLResetMarked(c)
    \/ RLResetAllMarked

SpecReset == RLInit /\ [][ResetNext]_vars

(***************************************************************************)
(* security/sandbox.py: PathValidator and Sandbox.check_file_access        *)
(*                                                                         *)
(* A path string is a sequence of characters; a resolved Path is the       *)
(* sequence of its components (each a sequence of characters).             *)
(***************************************************************************)
PathChars == {"/", ".", "a", "w", "0"}

\* longest path string tried
MaxPathLen == 3

RawPaths == UNION {[1..n -> PathChars] : n \in 0..MaxPathLen}

\* the process's working directory: /a
Cwd == << <<"a">> >>

\* the file system's symbolic links: /a/a -> /w
Symlinks == (<< <<"a">>, <<"a">> >> :> << <<"w">> >>)

\* os.environ WINDIR -> /w, PROGRAMFILES -> /a/w
ProtectedDirs == << << <<"w">> >>, << <<"a">>, <<"w">> >> >>

Operations == {"read", "write", "delete"}

\* Path(path).resolve() returns: it raises for a string with a null character ("0")
Resolvable(raw) == \A i \in 1..Len(raw) : raw[i] # "0"

\* ".." in path: a test on the raw string
HasDotDot(raw) == \E i \in 1..(Len(raw) - 1) : raw[i] = "." /\ raw[i + 1] = "."

Follow(p) == IF p \in DOMAIN Symlinks THEN Symlinks[p] ELSE p

\* one component of the walk: "" and "." stay, ".." goes up, a name goes down
\* and follows a symbolic link
Step(stack, comp) ==
    IF comp = <<>> \/ comp = <<".">> THEN stack
    ELSE IF comp = <<".", ".">>
         THEN IF stack = <<>> THEN <<>> ELSE SubSeq(stack, 1, Len(stack) - 1)
         ELSE Follow(Append(stack, comp))

RECURSIVE Walk(_, _, _)
Walk(raw, stack, comp) ==
    IF raw = <<>> THEN Step(stack, comp)
    ELSE IF Head(raw) = "/"
         THEN Walk(Tail(raw), Step(stack, comp), <<>>)
         ELSE Walk(Tail(raw), stack, Append(comp, Head(raw)))

\* Path(path).resolve(): absolute, "." and ".." removed, symbolic links followed
resolve(raw) ==
    Walk(raw, IF raw # <<>> /\ raw[1] = "/" THEN <<>> ELSE Cwd, <<>>)

\* path.relative_to(root) succeeds: root is path or an ancestor of it
IsUnder(path, root) ==
    /\ Len(root) <= Len(path)
    /\ SubSeq(path, 1, Len(root)) = root

\* [Path(p).resolve() for p in paths]
ResolveAll(raws) == [i \in 1..Len(raws) |-> resolve(raws[i])]

Ok(v) == [kind |-> "ok", val |-> v]
Raise(e) == [kind |-> e, val |-> None]

\* mutant: looks for ".." among the components of the resolved path
normalize_resolved(raw) ==
    IF ~Resolvable(raw) THEN Raise("ValueError")
    ELSE IF \E i \in 1..Len(resolve(raw)) : resolve(raw)[i] = <<".", ".">>
    THEN Raise("ValueError")
    ELSE Ok(resolve(raw))

\* PathValidator.normalize
normalize(raw) ==
    IF ~Resolvable(raw) THEN Raise("ValueError")
    ELSE IF HasDotDot(raw) THEN Raise("ValueError")
    ELSE Ok(resolve(raw))

\* mutant: the allow list is consulted before the block list
is_allowed_allowfirst(al, bl, raw) ==
    LET n == normalize(raw) IN
    IF n.kind = "ValueError" THEN FALSE
    ELSE IF \E i \in 1..Len(al) : IsUnder(n.val, al[i]) THEN TRUE
    ELSE IF \E i \in 1..Len(bl) : IsUnder(n.val, bl[i]) THEN FALSE
    ELSE al = <<>>

\* mutant: the allow list is not consulted
is_allowed_ignoresallowed(al, bl, raw) ==
    LET n == normalize(raw) IN
    IF n.kind = "ValueError" THEN FALSE
    ELSE ~\E i \in 1..Len(bl) : IsUnder(n.val, bl[i])

\* PathValidator.is_allowed (named path_is_allowed: is_allowed is the RateLimiter's)
path_is_allowed(al, bl, raw) ==
    LET n == normalize(raw) IN
    IF n.kind = "ValueError" THEN FALSE
    ELSE IF \E i \in 1..Len(bl) : IsUnder(n.val, bl[i]) THEN FALSE
    ELSE IF al # <<>> THEN \E i \in 1..Len(al) : IsUnder(n.val, al[i])
    ELSE TRUE

\* mutant: a path normalize refuses is reported as a denied path
validate_wraps(al, bl, raw) ==
    LET n == normalize(raw) IN
    IF n.kind # "ok" THEN Raise("PermissionError")
    ELSE IF ~path_is_allowed(al, bl, raw) THEN Raise("PermissionError")
    ELSE n

\* PathValidator.validate
validate(al, bl, raw) ==
    LET n == normalize(raw) IN
    IF n.kind # "ok" THEN n
    ELSE IF ~path_is_allowed(al, bl, raw) THEN Raise("PermissionError")
    ELSE n

\* mutant: the protected-directory floor guards "write" only
check_file_access_writeonly(en, al, bl, raw, op) ==
    IF ~en THEN IF Resolvable(raw) THEN Ok(resolve(raw)) ELSE Raise("ValueError")
    ELSE LET v == validate(al, bl, raw) IN
         IF v.kind # "ok" THEN v
         ELSE IF /\ op = "write"
                 /\ \E i \in 1..Len(ProtectedDirs) : IsUnder(v.val, ProtectedDirs[i])
              THEN Raise("PermissionError")
              ELSE v

\* Sandbox.check_file_access
check_file_access(en, al, bl, raw, op) ==
    IF ~en THEN IF Resolvable(raw) THEN Ok(resolve(raw)) ELSE Raise("ValueError")
    ELSE LET v == validate(al, bl, raw) IN
         IF v.kind # "ok" THEN v
         ELSE IF /\ op \in {"write", "delete"}
                 /\ \E i \in 1..Len(ProtectedDirs) : IsUnder(v.val, ProtectedDirs[i])
              THEN Raise("PermissionError")
              ELSE v

\* settings.allowed_paths / settings.blocked_paths, as configured
AllowedChoices ==
    { <<>>, << <<"/", "a">> >>, << <<"/", "w">> >>,
      << <<"/", "w">>, <<"/", "a">> >> }

BlockedChoices ==
    { <<>>, << <<"/", "a", "/", "w">> >>, << <<"/", "a">> >>,
      << <<"/", "w">>, <<"/", "a", "/", "w">> >> }

\* Sandbox.__init__ / PathValidator.__init__
PVInit ==
    /\ RLIdle
    /\ SrvIdle
    /\ AuthIdle
    /\ PolIdle
    /\ RegIdle
    /\ CxIdle
    /\ ThIdle
    /\ IoIdle
    /\ \E al \in AllowedChoices : allowed_paths = ResolveAll(al)
    /\ \E bl \in BlockedChoices : blocked_paths = ResolveAll(bl)
    /\ enabled \in BOOLEAN
    /\ pvCall = NoCall

PVNormalize(raw) ==
    /\ pvCall = NoCall
    /\ pvCall' = [fn |-> "normalize", path |-> raw, op |-> None, out |-> normalize(raw)]
    /\ UNCHANGED <<allowed_paths, blocked_paths, enabled, rlVars, srvVars, authVars, polVars, regVars, cxVars, thVars, ioVars>>

PVIsAllowed(raw) ==
    /\ pvCall = NoCall
    /\ pvCall' = [fn |-> "is_allowed", path |-> raw, op |-> None,
                  out |-> Ok(path_is_allowed(allowed_paths, blocked_paths, raw))]
    /\ UNCHANGED <<allowed_paths, blocked_paths, enabled, rlVars, srvVars, authVars, polVars, regVars, cxVars, thVars, ioVars>>

PVValidate(raw) ==
    /\ pvCall = NoCall
    /\ pvCall' = [fn |-> "validate", path |-> raw, op |-> None,
                  out |-> validate(allowed_paths, blocked_paths, raw)]
    /\ UNCHANGED <<allowed_paths, blocked_paths, enabled, rlVars, srvVars, authVars, polVars, regVars, cxVars, thVars, ioVars>>

PVCheckFileAccess(raw, op) ==
    /\ pvCall = NoCall
    /\ pvCall' = [fn |-> "check_file_access", path |-> raw, op |-> op,
                  out |-> check_file_access(enabled, allowed_paths, blocked_paths, raw, op)]
    /\ UNCHANGED <<allowed_paths, blocked_paths, enabled, rlVars, srvVars, authVars, polVars, regVars, cxVars, thVars, ioVars>>

\* the call returns (or raises) to its caller
PVReturn ==
    /\ pvCall # NoCall
    /\ pvCall' = NoCall
    /\ UNCHANGED <<allowed_paths, blocked_paths, enabled, rlVars, srvVars, authVars, polVars, regVars, cxVars, thVars, ioVars>>

PVNext ==
    \/ \E raw \in RawPaths : PVNormalize(raw)
    \/ \E raw \in RawPaths : PVIsAllowed(raw)
    \/ \E raw \in RawPaths : PVValidate(raw)
    \/ \E raw \in RawPaths, op \in Operations : PVCheckFileAccess(raw, op)
    \/ PVReturn

SpecPath == PVInit /\ [][PVNext]_vars

(***************************************************************************)
(* Claims about the path policy (specification SpecPath)                   *)
(***************************************************************************)
Called(fn) == pvCall.fn = fn

UnderSome(path, roots) == \E i \in 1..Len(roots) : IsUnder(path, roots[i])

\* C5: a path string containing ".." is rejected whatever the lists are:
\* normalize raises, is_allowed returns false, validate raises.
C5_DotDotRejected ==
    HasDotDot(pvCall.path) =>
        /\ Called("normalize") => pvCall.out.kind = "ValueError"
        /\ Called("is_allowed") => pvCall.out.val = FALSE
        /\ Called("validate") => pvCall.out.kind \in {"ValueError", "PermissionError"}

\* a ".." path that resolves into an allowed root, outside every blocked root,
\* is refused by is_allowed
C5_Witness ==
    /\ Called("is_allowed")
    /\ HasDotDot(pvCall.path)
    /\ allowed_paths # <<>>
    /\ UnderSome(resolve(pvCall.path), allowed_paths)
    /\ ~UnderSome(resolve(pvCall.path), blocked_paths)
    /\ pvCall.out.val = FALSE

\* C6: is_allowed is false for every path at or below a blocked root, also
\* when the path is at or below an allowed root.
C6_BlockedWins ==
    (Called("is_allowed") /\ UnderSome(resolve(pvCall.path), blocked_paths)) =>
        pvCall.out.val = FALSE

\* a path without ".." below both an allowed and a blocked root is refused
C6_Witness ==
    /\ Called("is_allowed")
    /\ ~HasDotDot(pvCall.path)
    /\ UnderSome(resolve(pvCall.path), blocked_paths)
    /\ UnderSome(resolve(pvCall.path), allowed_paths)
    /\ pvCall.out.val = FALSE

WriteUnderProtected ==
    /\ Called("check_file_access")
    /\ pvCall.op \in {"write", "delete"}
    /\ Resolvable(pvCall.path)
    /\ UnderSome(resolve(pvCall.path), ProtectedDirs)

PARSE_ERROR == -32700
INVALID_REQUEST == -32600
METHOD_NOT_FOUND == -32601
INVALID_PARAMS == -32602
INTERNAL_ERROR == -32603
TOOL_NOT_FOUND == -32001
TOOL_EXECUTION_ERROR == -32002
AUTHENTICATION_REQUIRED == -32003
PERMISSION_DENIED == -32004
RESOURCE_NOT_FOUND == -32005
RATE_LIMITED == -32006
TIMEOUT == -32007
CANCELLED == -32008
PLATFORM_NOT_SUPPORTED == -32009

\* class ErrorCode: the closed enumeration
ErrorCode ==
    { PARSE_ERROR, INVALID_REQUEST, METHOD_NOT_FOUND, INVALID_PARAMS, INTERNAL_ERROR,
      TOOL_NOT_FOUND, TOOL_EXECUTION_ERROR, AUTHENTICATION_REQUIRED, PERMISSION_DENIED,
      RESOURCE_NOT_FOUND, RATE_LIMITED, TIMEOUT, CANCELLED, PLATFORM_NOT_SUPPORTED }

\* JSONRPCError.from_code: default_messages
DefaultMessage(code) ==
    CASE code = PARSE_ERROR -> "Parse error"
      [] code = INVALID_REQUEST -> "Invalid Request"
      [] code = METHOD_NOT_FOUND -> "Method not found"
      [] code = INVALID_PARAMS -> "Invalid params"
      [] code = INTERNAL_ERROR -> "Internal error"
      [] code = TOOL_NOT_FOUND -> "Tool not found"
      [] code = TOOL_EXECUTION_ERROR -> "Tool execution error"
      [] code = AUTHENTICATION_REQUIRED -> "Authentication required"
      [] code = PERMISSION_DENIED -> "Permission denied"
      [] code = RESOURCE_NOT_FOUND -> "Resource not found"
      [] code = RATE_LIMITED -> "Rate limited"
      [] code = TIMEOUT -> "Request timeout"
      [] code = CANCELLED -> "Request cancelled"
      [] code = PLATFORM_NOT_SUPPORTED -> "Platform not supported"
      [] OTHER -> "Unknown error"

\* a JSON id: absent or null, an integer or string, or a value of another type
Null == "null"
GoodIds == {"1", "2"}
BadId == "[1]"

\* error = None
NoError == [isNone |-> TRUE, code |-> 0, message |-> "", hint |-> -1]

\* JSONRPCError.from_code(code, message): message or the default
from_code(code, message) ==
    [isNone |-> FALSE, code |-> code,
     message |-> IF message = "" THEN DefaultMessage(code) ELSE message,
     hint |-> -1]

\* result = None
NullResult == [kind |-> "null", isError |-> FALSE, blocks |-> 0, text |-> ""]

\* a result that is a JSON object
ObjResult(kind) == [kind |-> kind, isError |-> FALSE, blocks |-> 0, text |-> ""]

\* ToolCallResult.success(text).model_dump(by_alias=True)
ToolCallSuccess(text) == [kind |-> "tool_call", isError |-> FALSE, blocks |-> 1, text |-> text]

\* ToolCallResult.error(message).model_dump(by_alias=True)
ToolCallError(message) == [kind |-> "tool_call", isError |-> TRUE, blocks |-> 1, text |-> message]

\* handle_request returned None
NoResponse == [none |-> TRUE, id |-> Null, result |-> NullResult, error |-> NoError]

\* mutant: a successful response does not carry the request's id
success_nullid(id, result) == [none |-> FALSE, id |-> Null, result |-> result, error |-> NoError]

\* JSONRPCResponse.success(id, result)
success(id, result) == [none |-> FALSE, id |-> id, result |-> result, error |-> NoError]

\* JSONRPCResponse.failure(id, error)
failure(id, error) == [none |-> FALSE, id |-> id, result |-> NullResult, error |-> error]

(***************************************************************************)
(* Decoded JSON payloads                                                   *)
(***************************************************************************)
\* "method": a string is a sequence of tokens, " " is whitespace; str = FALSE
\* when the key is missing or its value is not a string
Method(text) == [str |-> TRUE, text |-> text]
NoMethod == [str |-> FALSE, text |-> <<>>]

\* "params": the keys the handlers look at; "-" is an absent key
Params(shape, extra, name, arguments, requestId, protocolVersion) ==
    [shape |-> shape, extra |-> extra, name |-> name, arguments |-> arguments,
     requestId |-> requestId, protocolVersion |-> protocolVersion]

PNone == Params("none", FALSE, "-", "-", "-", "-")
PScalar == Params("scalar", FALSE, "-", "-", "-", "-")
PEmptyDict == Params("dict", FALSE, "-", "-", "-", "-")
PList == Params("list", TRUE, "-", "-", "-", "-")
PInit == Params("dict", TRUE, "-", "-", "-", "2024-11-05")
PCall(name, arguments) == Params("dict", FALSE, name, arguments, "-", "-")
PCancel(rid) == Params("dict", FALSE, "-", "-", rid, "-")

\* what the external collaborators do while the request is handled: the tool's
\* execute, or a tool's get_definition under tools/list
Env(out, text) == [out |-> out, text |-> text]
EnvOk == Env("ok", "")

\* a JSON object
Obj(jsonrpc, id, method, params, env) ==
    [t |-> "obj", jsonrpc |-> jsonrpc, id |-> id, method |-> method,
     params |-> params, env |-> env]

\* a JSON value that is not an object (a number, a string, null, an array)
NonObj == [t |-> "nonobj", jsonrpc |-> "2.0", id |-> Null, method |-> NoMethod,
           params |-> PNone, env |-> EnvOk]

\* str.strip()
RECURSIVE LStrip(_)
LStrip(text) == IF text # <<>> /\ Head(text) = " " THEN LStrip(Tail(text)) ELSE text

RECURSIVE RStrip(_)
RStrip(text) ==
    IF text # <<>> /\ text[Len(text)] = " "
    THEN RStrip(SubSeq(text, 1, Len(text) - 1))
    ELSE text

strip(text) == RStrip(LStrip(text))

\* JSONRPCRequest.model_validate(data) succeeds: jsonrpc is "2.0", id is an int,
\* a string or null, method is a string that validate_method accepts, params is
\* a dict, a list or null
model_validate_ok(data) ==
    /\ data.t = "obj"
    /\ data.jsonrpc = "2.0"
    /\ data.id # BadId
    /\ data.method.str
    /\ strip(data.method.text) # <<>>
    /\ data.params.shape # "scalar"

\* the JSONRPCRequest: validate_method returns v.strip()
model_validate(data) ==
    [id |-> data.id, method |-> strip(data.method.text), params |-> data.params,
     env |-> data.env]

(***************************************************************************)
(* tools/base.py and tools/registry.py                                     *)
(***************************************************************************)
\* what a tool's execute may do
ToolReturns == {"ok_str", "ok_data", "ok_none", "ok_unserializable", "fail", "fail_noerror"}
ToolRaises == {"PermissionError", "FileNotFoundError", "TimeoutError", "Exception"}

\* a ToolResult handed back to the caller
ToolResult(ok, data, error) == [raised |-> "none", success |-> ok, data |-> data, error |-> error]

\* BaseTool.safe_execute: execute's result, or a failed ToolResult for what it raised
safe_execute(env) ==
    CASE env.out = "ok_str" -> ToolResult(TRUE, "str", "")
      [] env.out = "ok_data" -> ToolResult(TRUE, "json", "")
      [] env.out = "ok_none" -> ToolResult(TRUE, "none", "")
      [] env.out = "ok_unserializable" -> ToolResult(TRUE, "unserializable", "")
      [] env.out = "fail" -> ToolResult(FALSE, "none", "tool failed")
      [] env.out = "fail_noerror" -> ToolResult(FALSE, "none", "")
      [] env.out = "PermissionError" -> ToolResult(FALSE, "none", "Permission denied: ...")
      [] env.out = "FileNotFoundError" -> ToolResult(FALSE, "none", "File not found: ...")
      [] env.out = "TimeoutError" -> ToolResult(FALSE, "none", "Operation timeout: ...")
      [] OTHER -> ToolResult(FALSE, "none", "Execution error: ...")

\* mutant: the tool's execute is called directly, so what it raises gets out
execute_tool_direct(tls, name, arguments, env) ==
    IF name \notin tls THEN ToolResult(FALSE, "none", "Tool not found: ...")
    ELSE IF arguments = "{self}"
         THEN [raised |-> "TypeError", success |-> FALSE, data |-> "none",
               error |-> "got multiple values for argument 'self'"]
         ELSE IF env.out \in ToolRaises
              THEN [raised |-> env.out, success |-> FALSE, data |-> "none", error |-> ""]
              ELSE safe_execute(env)

\* ToolRegistry.execute_tool: an unknown name fails; tool.safe_execute(**arguments)
\* raises TypeError itself when the arguments hold a key named "self"
execute_tool(tls, name, arguments, env) ==
    IF name \notin tls THEN ToolResult(FALSE, "none", "Tool not found: ...")
    ELSE IF arguments = "{self}"
         THEN [raised |-> "TypeError", success |-> FALSE, data |-> "none",
               error |-> "got multiple values for argument 'self'"]
         ELSE safe_execute(env)

(***************************************************************************)
(* protocol/handler.py                                                     *)
(***************************************************************************)
\* ProtocolHandler._handlers
Handlers ==
    { <<"initialize">>, <<"initialized">>, <<"tools/list">>, <<"tools/call">>,
      <<"notifications/cancelled">>, <<"ping">> }

\* what a handler did: returned result, or raised exc with str(e) = text
Returned(result, st) == [exc |-> "none", text |-> "", result |-> result, st |-> st]
Raised(exc, text, st) == [exc |-> exc, text |-> text, result |-> NullResult, st |-> st]

\* "not params": None, {} and [] are falsy
Falsy(params) ==
    \/ params.shape = "none"
    \/ /\ ~params.extra
       /\ params.name = "-" /\ params.arguments = "-"
       /\ params.requestId = "-" /\ params.protocolVersion = "-"

\* handle_request: a dict stays, a list becomes a dict keyed by index, else None
ToDict(params) ==
    IF params.shape = "list" THEN [params EXCEPT !.shape = "dict"] ELSE params

\* mutant: initialize already marks the handler initialized
handle_initialize_setsflag(params, st) ==
    Returned(ObjResult("initialize"),
             [st EXCEPT !.initialized = TRUE,
                        !.client_capabilities =
                            IF ~Falsy(params) /\ params.protocolVersion # "-" THEN "peer" ELSE @])

\* ProtocolHandler._handle_initialize: remembers the peer's capabilities when
\* the params parse as InitializeParams
handle_initialize(params, st) ==
    Returned(ObjResult("initialize"),
             IF ~Falsy(params) /\ params.protocolVersion # "-"
             THEN [st EXCEPT !.client_capabilities = "peer"]
             ELSE st)

\* ProtocolHandler._handle_initialized
handle_initialized(params, st) ==
    Returned(NullResult, [st EXCEPT !.initialized = TRUE])

\* ProtocolHandler._handle_tools_list: a tool's get_definition may raise
handle_tools_list(params, env, st) ==
    IF env.out \in {"ValueError", "PermissionError", "TimeoutError", "Exception"}
    THEN Raised(env.out, env.text, st)
    ELSE Returned(ObjResult("tools_list"), st)

\* ToolCallParams.model_validate(params) succeeds
WellFormedCall(params) ==
    /\ params.name \notin {"-", "#5"}
    /\ params.arguments \in {"-", "{}", "{self}"}

\* the try block of _handle_tools_call: the text block for a ToolResult;
\* json.dumps raises on data it cannot serialize
ToolCallBody(tr, st) ==
    IF tr.raised # "none" THEN Raised(tr.raised, tr.error, st)
    ELSE IF tr.success
         THEN CASE tr.data = "str" -> Returned(ToolCallSuccess("data"), st)
                [] tr.data = "json" -> Returned(ToolCallSuccess("json"), st)
                [] tr.data = "unserializable" -> Raised("ValueError", "Circular reference detected", st)
                [] OTHER -> Returned(ToolCallSuccess("Operation completed successfully"), st)
         ELSE Returned(ToolCallError(IF tr.error = "" THEN "Unknown error" ELSE tr.error), st)

\* mutant: an exception of the try block is not caught
handle_tools_call_nocatch(params, env, st, tls) ==
    IF Falsy(params) THEN Raised("ValueError", "Missing required params for tools/call", st)
    ELSE IF ~WellFormedCall(params) THEN Raised("ValueError", "Invalid tool call params: ...", st)
    ELSE LET b == ToolCallBody(execute_tool(tls, params.name, params.arguments, env), st) IN
         IF b.exc # "none" THEN Raised(b.exc, b.text, st)
         ELSE Returned(b.result, st)

\* ProtocolHandler._handle_tools_call
handle_tools_call(params, env, st, tls) ==
    IF Falsy(params) THEN Raised("ValueError", "Missing required params for tools/call", st)
    ELSE IF ~WellFormedCall(params) THEN Raised("ValueError", "Invalid tool call params: ...", st)
    ELSE LET b == ToolCallBody(execute_tool(tls, params.name, params.arguments, env), st) IN
         IF b.exc # "none" THEN Returned(ToolCallError(b.text), st)
         ELSE Returned(b.result, st)

\* mutant: a request id that is not pending is an error
handle_cancelled_strict(params, st, pend) ==
    IF Falsy(params) THEN Returned(NullResult, st)
    ELSE IF params.requestId = "-" THEN Returned(NullResult, st)
    ELSE IF params.requestId = BadId THEN Raised("TypeError", "unhashable type: 'list'", st)
    ELSE IF params.requestId \notin pend THEN Raised("KeyError", "1", st)
    ELSE Returned(NullResult, st)

\* ProtocolHandler._handle_cancelled: "request_id in self._pending_requests"
\* raises TypeError for an unhashable request id
handle_cancelled(params, st, pend) ==
    IF Falsy(params) THEN Returned(NullResult, st)
    ELSE IF params.requestId = "-" THEN Returned(NullResult, st)
    ELSE IF params.requestId = BadId THEN Raised("TypeError", "unhashable type: 'list'", st)
    ELSE Returned(NullResult, st)

\* ProtocolHandler._handle_ping
handle_ping(params, st) == Returned(ObjResult("ping"), st)

\* result = await handler(params)
CallHandler(method, params, env, st, tls, pend) ==
    CASE method = <<"initialize">> -> handle_initialize(params, st)
      [] method = <<"initialized">> -> handle_initialized(params, st)
      [] method = <<"tools/list">> -> handle_tools_list(params, env, st)
      [] method = <<"tools/call">> -> handle_tools_call(params, env, st, tls)
      [] method = <<"notifications/cancelled">> -> handle_cancelled(params, st, pend)
      [] OTHER -> handle_ping(params, st)

\* mutant: PermissionError is not told apart from the other exceptions
Classify_nopermission(exc) ==
    CASE exc = "ValueError" -> INVALID_PARAMS
      [] exc = "TimeoutError" -> TIMEOUT
      [] OTHER -> INTERNAL_ERROR

\* the except clauses of handle_request, in their order
Classify(exc) ==
    CASE exc = "ValueError" -> INVALID_PARAMS
      [] exc = "PermissionError" -> PERMISSION_DENIED
      [] exc = "TimeoutError" -> TIMEOUT
      [] OTHER -> INTERNAL_ERROR

\* what handle_request hands back: the response (NoResponse for None), the
\* handler state, whether a handler ran and what it raised
Handled(resp, st, ran, exc) == [raises |-> FALSE, resp |-> resp, st |-> st, ran |-> ran, exc |-> exc]

\* mutant: a notification whose handler raised is answered with the error
handle_request_answers(req, st, tls, pend) ==
    IF req.method \notin Handlers
    THEN Handled(IF req.id = Null THEN NoResponse
                 ELSE failure(req.id, from_code(METHOD_NOT_FOUND, "Method not found: ...")),
                 st, FALSE, "none")
    ELSE LET h == CallHandler(req.method, ToDict(req.params), req.env, st, tls, pend) IN
         IF h.exc = "none"
         THEN Handled(IF req.id = Null THEN NoResponse ELSE success(req.id, h.result),
                      h.st, TRUE, "none")
         ELSE Handled(failure(req.id, from_code(Classify(h.exc), h.text)),
                      h.st, TRUE, h.exc)

\* mutant: the answer to an unknown method does not carry the request's id
handle_request_dropsid(req, st, tls, pend) ==
    IF req.method \notin Handlers
    THEN Handled(IF req.id = Null THEN NoResponse
                 ELSE failure(Null, from_code(METHOD_NOT_FOUND, "Method not found: ...")),
                 st, FALSE, "none")
    ELSE LET h == CallHandler(req.method, ToDict(req.params), req.env, st, tls, pend) IN
         IF h.exc = "none"
         THEN Handled(IF req.id = Null THEN NoResponse ELSE success(req.id, h.result),
                      h.st, TRUE, "none")
         ELSE Handled(IF req.id = Null THEN NoResponse
                      ELSE failure(req.id, from_code(Classify(h.exc), h.text)),
                      h.st, TRUE, h.exc)

\* ProtocolHandler.handle_request
handle_request(req, st, tls, pend) ==
    IF req.method \notin Handlers
    THEN Handled(IF req.id = Null THEN NoResponse
                 ELSE failure(req.id, from_code(METHOD_NOT_FOUND, "Method not found: ...")),
                 st, FALSE, "none")
    ELSE LET h == CallHandler(req.method, ToDict(req.params), req.env, st, tls, pend) IN
         IF h.exc = "none"
         THEN Handled(IF req.id = Null THEN NoResponse ELSE success(req.id, h.result),
                      h.st, TRUE, "none")
         ELSE Handled(IF req.id = Null THEN NoResponse
                      ELSE failure(req.id, from_code(Classify(h.exc), h.text)),
                      h.st, TRUE, h.exc)

(***************************************************************************)
(* server.py: MCPServer.handle_message                                     *)
(***************************************************************************)
\* the client identity handle_message is called with (stdio: the default)
ServerClients == {"anonymous"}

\* longest batch tried
MaxBatch == 2

\* one line of the record of a message's handling: element idx was handled,
\* what _handle_single_request returned for it (or that it raised), whether a
\* handler ran and what the handler raised
Line(idx, r) == [idx |-> idx, raises |-> r.raises, resp |-> r.resp, ran |-> r.ran, exc |-> r.exc]

\* _handle_single_request raised: data.get on a value that is not an object
\* (AttributeError), or JSONRPCResponse.failure with an id that is no int or str
Propagates(st) == [raises |-> TRUE, resp |-> NoResponse, st |-> st, ran |-> FALSE, exc |-> "none"]

\* MCPServer._handle_single_request
handle_single_request(data, st, tls, pend) ==
    IF model_validate_ok(data)
    THEN handle_request(model_validate(data), st, tls, pend)
    ELSE IF data.t # "obj" \/ data.id = BadId
         THEN Propagates(st)
         ELSE Handled(failure(data.id, from_code(INVALID_REQUEST, "validation error")),
                      st, FALSE, "none")

\* the batch loop of handle_message: the elements in array order, each reply
\* that is not None appended; an exception ends the loop
RECURSIVE RunBatch(_, _, _, _, _)
RunBatch(items, i, acc, tls, pend) ==
    IF i > Len(items) THEN acc
    ELSE LET r == handle_single_request(items[i], acc.st, tls, pend) IN
         IF r.raises
         THEN [acc EXCEPT !.raises = TRUE, !.trace = Append(@, Line(i, r))]
         ELSE RunBatch(items, i + 1,
                       [raises |-> FALSE, st |-> r.st,
                        responses |-> IF r.resp.none THEN acc.responses
                                      ELSE Append(acc.responses, r.resp),
                        trace |-> Append(acc.trace, Line(i, r))],
                       tls, pend)

\* what handle_message returned: None, one response, "[r1,...,rk]", or an
\* exception that left it; and the handler state afterwards
Outcome(kind, responses, trace, st) ==
    [kind |-> kind, responses |-> responses, trace |-> trace, st |-> st]

\* mutant: a batch without replies is answered with an empty array
Assemble_emptyarray(responses, trace, st) == Outcome("batch", responses, trace, st)

\* "[" + ",".join(responses) + "]" if responses else None
Assemble(responses, trace, st) ==
    IF responses # <<>> THEN Outcome("batch", responses, trace, st)
    ELSE Outcome("none", <<>>, trace, st)

\* mutant: text that is no JSON is answered as an invalid request
ParseFailure_invalidrequest(st) ==
    Outcome("single", <<failure(Null, from_code(INVALID_REQUEST, "Invalid JSON: ..."))>>, <<>>, st)

\* json.loads raised JSONDecodeError: the reply is
\* JSONRPCResponse.failure(None, from_code(PARSE_ERROR, f"Invalid JSON: {e}"))
ParseFailure(st) ==
    Outcome("single", <<failure(Null, from_code(PARSE_ERROR, "Invalid JSON: ..."))>>, <<>>, st)

\* handle_message after the rate limiter admitted the caller
Dispatch(m, st, tls, pend) ==
    IF m.kind = "garbage"
    THEN ParseFailure(st)
    ELSE IF m.kind = "batch"
    THEN LET b == RunBatch(m.items, 1,
                           [raises |-> FALSE, st |-> st, responses |-> <<>>, trace |-> <<>>],
                           tls, pend)
         IN IF b.raises THEN Outcome("raised", <<>>, b.trace, b.st)
            ELSE Assemble(b.responses, b.trace, b.st)
    ELSE LET r == handle_single_request(m.items[1], st, tls, pend) IN
         IF r.raises THEN Outcome("raised", <<>>, <<Line(1, r)>>, r.st)
         ELSE IF r.resp.none THEN Outcome("none", <<>>, <<Line(1, r)>>, r.st)
         ELSE Outcome("single", <<r.resp>>, <<Line(1, r)>>, r.st)

\* f"{x:.0f}" of a time of `ticks` clock ticks: the nearest whole number of
\* seconds, a tie going to the even one
Format0f(ticks) ==
    LET q == ticks \div TicksPerSecond
        r == ticks % TicksPerSecond
    IN IF 2 * r < TicksPerSecond THEN q
       ELSE IF 2 * r > TicksPerSecond THEN q + 1
       ELSE IF q % 2 = 0 THEN q ELSE q + 1

\* mutant: the reply carries no retry-after hint
RateLimitedReply_nohint(bk, c, t) == failure(Null, from_code(RATE_LIMITED, ""))

\* the reply to a caller the rate limiter rejects:
\* f"Rate limit exceeded. Retry after {get_reset_time(client_id):.0f}s"
RateLimitedReply(bk, c, t) ==
    failure(Null, [from_code(RATE_LIMITED, "Rate limit exceeded. Retry after ...s")
                   EXCEPT !.hint = Format0f(get_reset_time(bk, c, t).ret)])

HandlerState == [initialized |-> initialized, client_capabilities |-> client_capabilities]

\* MCPServer.__init__ / ProtocolHandler.__init__
Init ==
    /\ RLIdle
    /\ PVIdle
    /\ SrvIdle
    /\ AuthIdle
    /\ PolIdle
    /\ RegIdle
    /\ CxIdle
    /\ ThIdle
    /\ IoIdle

\* mutant: a batch is charged once more for its second element
handle_message_perelement(m, c) ==
    LET lim == is_allowed(buckets, c, now)
        out == Dispatch(m, HandlerState, tools, pending_requests)
        charged == IF m.kind = "batch" /\ Len(m.items) > 1
                   THEN is_allowed(lim.buckets, c, now).buckets
                   ELSE lim.buckets
    IN IF ~lim.ret
       THEN [buckets |-> lim.buckets, st |-> HandlerState,
             reply |-> [kind |-> "single",
                        responses |-> <<RateLimitedReply(lim.buckets, c, now)>>,
                        trace |-> <<>>, admitted |-> FALSE, client |-> c, at |-> now]]
       ELSE [buckets |-> charged, st |-> out.st,
             reply |-> [kind |-> out.kind, responses |-> out.responses,
                        trace |-> out.trace, admitted |-> TRUE, client |-> c, at |-> now]]

\* MCPServer.handle_message(message, client_id): what it returns (reply), and
\* the buckets and the handler state it leaves
handle_message(m, c) ==
    LET lim == is_allowed(buckets, c, now)
        out == Dispatch(m, HandlerState, tools, pending_requests)
    IN IF ~lim.ret
       THEN [buckets |-> lim.buckets, st |-> HandlerState,
             reply |-> [kind |-> "single",
                        responses |-> <<RateLimitedReply(lim.buckets, c, now)>>,
                        trace |-> <<>>, admitted |-> FALSE, client |-> c, at |-> now]]
       ELSE [buckets |-> lim.buckets, st |-> out.st,
             reply |-> [kind |-> out.kind, responses |-> out.responses,
                        trace |-> out.trace, admitted |-> TRUE, client |-> c, at |-> now]]

\* the state after handle_message ran on m and came back with r
Serve(m, r) ==
    /\ msg' = m
    /\ buckets' = r.buckets
    /\ reply' = r.reply
    /\ initialized' = r.st.initialized
    /\ client_capabilities' = r.st.client_capabilities
    /\ UNCHANGED <<now, rlRet, hist, wasReset, solo, soloRet, pvVars, pending_requests, tools, polVars, regVars, cxVars, thVars>>

\* _run_stdio: response = await self.handle_message(message)
HandleMessage(m, c) ==
    LET r == handle_message(m, c) IN
    /\ reply.kind = "idle"
    /\ Serve(m, r)
    /\ UNCHANGED <<authVars, ioVars>>

\* the transport writes the reply (if any) and waits for the next message
Deliver ==
    /\ reply.kind # "idle"
    /\ msg' = NoMsg
    /\ reply' = NoReply
    /\ UNCHANGED <<rlVars, pvVars, hdVars, authVars, polVars, regVars, cxVars, thVars, ioVars>>

(***************************************************************************)
(* The messages tried                                                      *)
(***************************************************************************)
MPing == Method(<<"ping">>)
MInitialize == Method(<<"initialize">>)
MInitialized == Method(<<"initialized">>)
MToolsList == Method(<<"tools/list">>)
MToolsCall == Method(<<"tools/call">>)
MCancelled == Method(<<"notifications/cancelled">>)
MUnknown == Method(<<"nonexistent/method">>)
\* a name of the table in another case
MUpperPing == Method(<<"PING">>)

\* method, params and collaborator behaviour of the well-formed requests
Calls ==
    { <<MInitialize, PNone, EnvOk>>, <<MInitialize, PInit, EnvOk>>,
      <<MInitialized, PNone, EnvOk>>,
      <<MPing, PNone, EnvOk>>, <<Method(<<" ", "ping", " ">>), PNone, EnvOk>>,
      <<MUnknown, PNone, EnvOk>>, <<MUpperPing, PNone, EnvOk>>,
      <<MCancelled, PNone, EnvOk>>, <<MCancelled, PCancel("1"), EnvOk>>,
      <<MCancelled, PCancel(BadId), EnvOk>>,
      <<MToolsCall, PNone, EnvOk>>, <<MToolsCall, PEmptyDict, EnvOk>>,
      <<MToolsCall, PList, EnvOk>>, <<MToolsCall, PCall("read_file", "5"), EnvOk>>,
      <<MToolsCall, PCall("#5", "{}"), EnvOk>>,
      <<MToolsCall, PCall("nonexistent_tool", "{}"), EnvOk>>,
      <<MToolsCall, PCall("read_file", "{self}"), Env("ok_str", "")>>,
      <<MToolsCall, PCall("read_file", "-"), Env("ok_str", "")>> }
    \cup { <<MToolsList, PNone, Env(o, x)>> :
              o \in {"ValueError", "PermissionError", "TimeoutError", "Exception"},
              x \in {"", "detail"} }
    \cup { <<MToolsList, PNone, EnvOk>> }
    \cup { <<MToolsCall, PCall("read_file", "{}"), Env(o, "")>> :
              o \in ToolReturns \cup ToolRaises }

\* the well-formed requests: each call as a notification and with an id
Requests1 == { Obj("2.0", i, c[1], c[2], c[3]) : i \in {Null, "1"}, c \in Calls }

\* objects that are no valid request
BadEnvelopes ==
    { Obj("2.0", i, m, PNone, EnvOk) :
        i \in {Null, "1", BadId}, m \in {NoMethod, Method(<<>>), Method(<<" ">>)} }
    \cup { Obj("2.0", BadId, MPing, PNone, EnvOk) }
    \cup { Obj("1.0", i, MPing, PNone, EnvOk) : i \in {Null, "1"} }
    \cup { Obj("2.0", i, MPing, PScalar, EnvOk) : i \in {Null, "1"} }

Payloads == Requests1 \cup BadEnvelopes \cup {NonObj}

\* the elements batches are built from
BatchPayloads ==
    { Obj("2.0", Null, MInitialized, PNone, EnvOk),
      Obj("2.0", Null, MToolsCall, PNone, EnvOk),
      Obj("2.0", "1", MPing, PNone, EnvOk),
      Obj("2.0", "1", MInitialized, PNone, EnvOk),
      Obj("2.0", "2", MUnknown, PNone, EnvOk),
      Obj("2.0", "2", MToolsCall, PCall("read_file", "{}"), Env("ok_str", "")),
      Obj("2.0", Null, Method(<<>>), PNone, EnvOk),
      NonObj }

Messages ==
    { [kind |-> "garbage", items |-> <<>>] }
    \cup { [kind |-> "single", items |-> <<p>>] : p \in Payloads }
    \cup { [kind |-> "batch", items |-> b] :
             b \in UNION {[1..n -> BatchPayloads] : n \in 0..MaxBatch} }

Next ==
    \/ Tick
    \/ \E m \in Messages, c \in ServerClients : HandleMessage(m, c)
    \/ Deliver

Spec == Init /\ [][Next]_vars

(***************************************************************************)
(* security/auth.py                                                        *)
(***************************************************************************)
\* `if x:` on an optional string: given and not empty
Truthy(x) == x.present /\ x.s # <<>>

\* the keys tried: the empty string, plain keys, a key that itself begins
\* with "Bearer ", and the key generate_api_key makes
GeneratedKey == <<"wmcp_", "token">>
Keys == {<<>>, <<"k1">>, <<"k2">>, <<"Bearer ", "k1">>, GeneratedKey}

\* the client identities add_api_key and generate_api_key are given
ClientIds == {"alice", ""}

\* what the X-API-Key and Authorization headers may hold
ApiKeyArgs == {Absent} \cup {Str(k) : k \in {<<>>, <<"k1">>, <<"k2">>, <<"Bearer ", "k1">>}}
BearerArgs ==
    {Absent}
    \cup {Str(k) : k \in {<<>>, <<"k1">>, <<"Bearer ">>, <<"Bearer ", "k1">>,
                          <<"Bearer ", "k2">>, <<"bearer ", "k1">>,
                          <<"Bearer ", "Bearer ", "k1">>}}

\* AuthResult(authenticated, client_id, error)
AuthResult(a, c, e) == [authenticated |-> a, client_id |-> c, error |-> e]

\* token = bearer_token[7:] if bearer_token.startswith("Bearer ") else bearer_token
BearerKey(b) == IF b # <<>> /\ b[1] = "Bearer " THEN Tail(b) ELSE b

\* mutant: the key table is consulted even when authentication is not required
authenticate_alwayschecks(keys, req, api_key, bearer_token) ==
    IF Truthy(api_key)
    THEN IF api_key.s \in DOMAIN keys
         THEN AuthResult(TRUE, keys[api_key.s], None)
         ELSE AuthResult(FALSE, None, "Invalid API key")
    ELSE AuthResult(FALSE, None, "Authentication required")

\* mutant: a request without credentials is let in
authenticate_nocredentials(keys, req, api_key, bearer_token) ==
    IF ~req THEN AuthResult(TRUE, "anonymous", None)
    ELSE IF Truthy(api_key) /\ api_key.s \in DOMAIN keys
    THEN AuthResult(TRUE, keys[api_key.s], None)
    ELSE IF Truthy(bearer_token) /\ BearerKey(bearer_token.s) \in DOMAIN keys
    THEN AuthResult(TRUE, keys[BearerKey(bearer_token.s)], None)
    ELSE AuthResult(TRUE, "anonymous", None)

\* mutant: an unknown API key falls back to the bearer token
authenticate_fallsback(keys, req, api_key, bearer_token) ==
    IF ~req THEN AuthResult(TRUE, "anonymous", None)
    ELSE IF Truthy(api_key) /\ api_key.s \in DOMAIN keys
    THEN AuthResult(TRUE, keys[api_key.s], None)
    ELSE IF Truthy(bearer_token)
    THEN LET token == BearerKey(bearer_token.s) IN
         IF token \in DOMAIN keys
         THEN AuthResult(TRUE, keys[token], None)
         ELSE AuthResult(FALSE, None, "Invalid bearer token")
    ELSE IF Truthy(api_key) THEN AuthResult(FALSE, None, "Invalid API key")
    ELSE AuthResult(FALSE, None, "Authentication required")

\* Authenticator.authenticate(api_key, bearer_token)
authenticate(keys, req, api_key, bearer_token) ==
    IF ~req THEN AuthResult(TRUE, "anonymous", None)
    ELSE IF Truthy(api_key)
    THEN IF api_key.s \in DOMAIN keys
         THEN AuthResult(TRUE, keys[api_key.s], None)
         ELSE AuthResult(FALSE, None, "Invalid API key")
    ELSE IF Truthy(bearer_token)
    THEN LET token == BearerKey(bearer_token.s) IN
         IF token \in DOMAIN keys
         THEN AuthResult(TRUE, keys[token], None)
         ELSE AuthResult(FALSE, None, "Invalid bearer token")
    ELSE AuthResult(FALSE, None, "Authentication required")

\* the record of writes after key k was given to client c / after k was removed
Written(log, k, c) == {w \in log : w.key # k} \cup {[key |-> k, client |-> c]}
Removed(log, k) == {w \in log : w.key # k}

\* mutant: a key that is already in the table keeps its client
SetKey_firstwins(keys, k, c) ==
    [x \in DOMAIN keys \cup {k} |-> IF x = k /\ k \notin DOMAIN keys THEN c ELSE keys[x]]

\* self._api_keys[key] = client_id
SetKey(keys, k, c) == [x \in DOMAIN keys \cup {k} |-> IF x = k THEN c ELSE keys[x]]

\* self._api_keys.pop(key)
PopKey(keys, k) == [x \in DOMAIN keys \ {k} |-> keys[x]]

\* settings.api_key: not set, set to the empty string, or set to a key
ConfiguredKeys == {Absent, Str(<<>>), Str(<<"k1">>)}

\* Authenticator.__init__: the configured key, if any, belongs to "default"
AuthInit ==
    /\ RLIdle
    /\ PVIdle
    /\ SrvIdle
    /\ require_auth \in BOOLEAN
    /\ \E k \in ConfiguredKeys :
          /\ api_keys = IF Truthy(k) THEN SetKey(<<>>, k.s, "default") ELSE <<>>
          /\ lastWrite = IF Truthy(k) THEN {[key |-> k.s, client |-> "default"]} ELSE {}
    /\ authRet = NoAuthCall
    /\ http = NoHttp
    /\ PolIdle
    /\ RegIdle
    /\ CxIdle
    /\ ThIdle
    /\ IoIdle

\* Authenticator.add_api_key(key, client_id)
AddApiKey(k, c) ==
    /\ authRet = NoAuthCall
    /\ http = NoHttp
    /\ api_keys' = SetKey(api_keys, k, c)
    /\ lastWrite' = Written(lastWrite, k, c)
    /\ UNCHANGED <<require_auth, authRet, http, rlVars, pvVars, srvVars, polVars, regVars, cxVars, thVars, ioVars>>

\* Authenticator.remove_api_key(key): whether the key was there
RemoveApiKey(k) ==
    /\ authRet = NoAuthCall
    /\ http = NoHttp
    /\ api_keys' = IF k \in DOMAIN api_keys THEN PopKey(api_keys, k) ELSE api_keys
    /\ lastWrite' = Removed(lastWrite, k)
    /\ authRet' = [NoAuthCall EXCEPT !.op = "remove_api_key", !.api_key = Str(k),
                                     !.authenticated = (k \in DOMAIN api_keys)]
    /\ UNCHANGED <<require_auth, http, rlVars, pvVars, srvVars, polVars, regVars, cxVars, thVars, ioVars>>

\* Authenticator.generate_api_key(client_id): a new key "wmcp_..." for the client
GenerateApiKey(c) ==
    /\ authRet = NoAuthCall
    /\ http = NoHttp
    /\ api_keys' = SetKey(api_keys, GeneratedKey, c)
    /\ lastWrite' = Written(lastWrite, GeneratedKey, c)
    /\ authRet' = [NoAuthCall EXCEPT !.op = "generate_api_key", !.api_key = Str(GeneratedKey),
                                     !.client_id = c]
    /\ UNCHANGED <<require_auth, http, rlVars, pvVars, srvVars, polVars, regVars, cxVars, thVars, ioVars>>

\* a call of Authenticator.authenticate and what it returned
Authenticate(a, b) ==
    LET r == authenticate(api_keys, require_auth, a, b) IN
    /\ authRet = NoAuthCall
    /\ http = NoHttp
    /\ authRet' = [op |-> "authenticate", api_key |-> a, bearer_token |-> b,
                   authenticated |-> r.authenticated, client_id |-> r.client_id,
                   error |-> r.error]
    /\ UNCHANGED <<require_auth, api_keys, http, lastWrite, rlVars, pvVars, srvVars, polVars, regVars, cxVars, thVars, ioVars>>

\* the caller has the result
AuthReturn ==
    /\ authRet # NoAuthCall
    /\ authRet' = NoAuthCall
    /\ UNCHANGED <<require_auth, api_keys, http, lastWrite, rlVars, pvVars, srvVars, polVars, regVars, cxVars, thVars, ioVars>>

AuthNext ==
    \/ \E k \in Keys, c \in ClientIds : AddApiKey(k, c)
    \/ \E k \in Keys : RemoveApiKey(k)
    \/ \E c \in ClientIds : GenerateApiKey(c)
    \/ \E a \in ApiKeyArgs, b \in BearerArgs : Authenticate(a, b)
    \/ AuthReturn

SpecAuth == AuthInit /\ [][AuthNext]_vars

(***************************************************************************)
(* server.py: the HTTP transport                                           *)
(***************************************************************************)
\* mutant: a failed authentication does not stop the request
http_auth_nogate(keys, req, a, b) ==
    LET r == authenticate(keys, req, a, b) IN
    IF req
    THEN [checked |-> TRUE, denied |-> FALSE, result |-> r,
          client_id |-> IF r.client_id \in {"", None} THEN "unknown" ELSE r.client_id]
    ELSE [checked |-> FALSE, denied |-> FALSE, result |-> AuthResult(FALSE, None, None),
          client_id |-> "anonymous"]

\* _http_handler, the credentials: authenticate only when require_auth; a
\* failure ends the exchange, else client_id = auth_result.client_id or "unknown"
http_auth(keys, req, a, b) ==
    LET r == authenticate(keys, req, a, b) IN
    IF req
    THEN [checked |-> TRUE, denied |-> ~r.authenticated, result |-> r,
          client_id |-> IF r.client_id \in {"", None} THEN "unknown" ELSE r.client_id]
    ELSE [checked |-> FALSE, denied |-> FALSE, result |-> AuthResult(FALSE, None, None),
          client_id |-> "anonymous"]

\* a body request.text() cannot read
Unreadable == [kind |-> "unreadable", items |-> <<>>]

\* MCPServer._http_handler: one POST with its headers and body
HttpPost(a, b, body) ==
    LET g == http_auth(api_keys, require_auth, a, b)
        r == handle_message(body, g.client_id)
        h == [NoHttp EXCEPT !.api_key = a, !.bearer = b, !.checked = g.checked,
                            !.authenticated = g.result.authenticated,
                            !.client_id = g.result.client_id, !.before = buckets]
    IN
    /\ http = NoHttp
    /\ authRet = NoAuthCall
    /\ reply.kind = "idle"
    /\ IF g.denied
       THEN /\ http' = [h EXCEPT !.status = 401, !.code = AUTHENTICATION_REQUIRED,
                                 !.error = IF g.result.error \in {"", None}
                                           THEN "Authentication required"
                                           ELSE g.result.error]
            /\ UNCHANGED <<rlVars, srvVars>>
       ELSE IF body = Unreadable
       THEN /\ http' = [h EXCEPT !.status = 400, !.code = PARSE_ERROR,
                                 !.error = "Failed to read body: ..."]
            /\ UNCHANGED <<rlVars, srvVars>>
       ELSE /\ Serve(body, r)
            /\ http' = [h EXCEPT !.handled = TRUE,
                                 !.status = CASE reply'.kind = "none" -> 204
                                              [] reply'.kind = "raised" -> 500
                                              [] OTHER -> 200]
    /\ UNCHANGED <<require_auth, api_keys, authRet, lastWrite, pvVars, polVars, regVars, cxVars, thVars, ioVars>>

\* the response is sent; the server waits for the next request
HttpRespond ==
    /\ http # NoHttp
    /\ http' = NoHttp
    /\ msg' = NoMsg
    /\ reply' = NoReply
    /\ UNCHANGED <<require_auth, api_keys, authRet, lastWrite, rlVars, pvVars, hdVars, polVars, regVars, cxVars, thVars, ioVars>>

\* the header pairs and bodies posted, and the keys added while serving
HttpCredentials ==
    { <<Absent, Absent>>, <<Str(<<>>), Absent>>,
      <<Str(<<"k1">>), Absent>>, <<Str(<<"k2">>), Absent>>,
      <<Absent, Str(<<"Bearer ", "k1">>)>>, <<Absent, Str(<<"k2">>)>>,
      <<Absent, Str(<<"Bearer ">>)>>,
      <<Str(<<"k2">>), Str(<<"Bearer ", "k1">>)>> }

HttpBodies ==
    { [kind |-> "garbage", items |-> <<>>],
      [kind |-> "single", items |-> <<Obj("2.0", "1", MPing, PNone, EnvOk)>>],
      [kind |-> "single", items |-> <<Obj("2.0", Null, MInitialized, PNone, EnvOk)>>],
      Unreadable }

HttpAdds == { <<<<"k2">>, "alice">>, <<<<"k2">>, "">> }

HttpNext ==
    \/ \E x \in HttpAdds : AddApiKey(x[1], x[2])
    \/ \E cr \in HttpCredentials, body \in HttpBodies : HttpPost(cr[1], cr[2], body)
    \/ HttpRespond

SpecHttp == AuthInit /\ [][HttpNext]_vars

(***************************************************************************)
(* server.py: the stdio transport (_run_stdio)                             *)
(***************************************************************************)
\* most lines and bodies a client sends
MaxTokens == 7

\* reads of a closed stream are counted up to MaxPolls, then from 0 again
MaxPolls == 2

\* a text is a sequence of parts; a part is a string of ASCII characters,
\* except EAcute, which stands for the one character U+00E9
EAcute == "U+00E9"

\* len(text): the characters
RECURSIVE Chars(_)
Chars(text) ==
    IF text = <<>> THEN 0
    ELSE (IF Head(text) = EAcute THEN 1 ELSE Len(Head(text))) + Chars(Tail(text))

\* len(text.encode("utf-8")): U+00E9 takes two bytes
RECURSIVE Utf8Len(_)
Utf8Len(text) ==
    IF text = <<>> THEN 0
    ELSE (IF Head(text) = EAcute THEN 2 ELSE Len(Head(text))) + Utf8Len(Tail(text))

\* what travels on the streams: a line "Content-Length: n", an empty line, any
\* other line, or the bytes of a body
HeaderLine(n) == [t |-> "header", n |-> n, text |-> <<>>]
BlankLine == [t |-> "blank", n |-> 0, text |-> <<>>]
OtherLine == [t |-> "other", n |-> 0, text |-> <<>>]
Body(text) == [t |-> "body", n |-> 0, text |-> text]

\* the bodies the client frames
TextPing(id) == <<"{\"jsonrpc\":\"2.0\",\"id\":\"", id, "\",\"method\":\"ping\"}">>
TextInitialized == <<"{\"jsonrpc\":\"2.0\",\"method\":\"initialized\"}">>
TextGarbage == <<"not valid json{">>
TextNumber == <<"42">>

StdioTexts == {TextPing("1"), TextPing(EAcute), TextInitialized, TextGarbage, TextNumber}

\* json.loads(message) for these bodies
json_loads(text) ==
    CASE text = TextPing("1") ->
             [kind |-> "single", items |-> <<Obj("2.0", "1", MPing, PNone, EnvOk)>>]
      [] text = TextPing(EAcute) ->
             [kind |-> "single", items |-> <<Obj("2.0", EAcute, MPing, PNone, EnvOk)>>]
      [] text = TextInitialized ->
             [kind |-> "single", items |-> <<Obj("2.0", Null, MInitialized, PNone, EnvOk)>>]
      [] text = TextNumber -> [kind |-> "single", items |-> <<NonObj>>]
      [] OTHER -> [kind |-> "garbage", items |-> <<>>]

\* JSONRPCResponse.model_dump_json()
IdText(id) == IF id = Null THEN <<"null">> ELSE <<"\"", id, "\"">>

ResultText(res) ==
    IF res = NullResult THEN <<"null">> ELSE <<"{\"", res.kind, "\":\"", res.text, "\"}">>

ErrorText(e) ==
    IF e.isNone THEN <<"null">>
    ELSE <<"{\"code\":", ToString(e.code), ",\"message\":\"", e.message, "\",\"data\":null}">>

model_dump_json(resp) ==
    <<"{\"jsonrpc\":\"2.0\",\"id\":">> \o IdText(resp.id)
        \o <<",\"result\":">> \o ResultText(resp.result)
        \o <<",\"error\":">> \o ErrorText(resp.error) \o <<"}">>

\* ",".join(responses)
RECURSIVE Join(_)
Join(responses) ==
    IF responses = <<>> THEN <<>>
    ELSE model_dump_json(Head(responses))
             \o (IF Tail(responses) = <<>> THEN <<>> ELSE <<",">> \o Join(Tail(responses)))

\* the string handle_message returns: one dumped response, or "[" + ... + "]"
ResponseText(kind, responses) ==
    IF kind = "batch" THEN <<"[">> \o Join(responses) \o <<"]">>
    ELSE model_dump_json(responses[1])

\* mutant: the header counts characters, not bytes
StdioFrame_chars(text) == <<HeaderLine(Chars(text)), BlankLine, Body(text)>>

\* f"Content-Length: {len(response_bytes)}\r\n\r\n".encode() + response_bytes
StdioFrame(text) == <<HeaderLine(Utf8Len(text)), BlankLine, Body(text)>>

\* what has arrived and was not read yet
Unread == SubSeq(stdin.sent, stdin.read + 1, Len(stdin.sent))

\* MCPServer.__init__: the server is built, start() was not called
StdioInit ==
    /\ RLIdle
    /\ PVIdle
    /\ SrvIdle
    /\ AuthIdle
    /\ PolIdle
    /\ RegIdle
    /\ CxIdle
    /\ ThIdle
    /\ IoIdle

\* start(): self._running = True; await self._run_stdio()
StdioStart ==
    /\ loop.pc = "idle"
    /\ running' = TRUE
    /\ loop' = [loop EXCEPT !.pc = "header"]
    /\ UNCHANGED <<stdin, stdout, served, rlVars, pvVars, srvVars, authVars, polVars, regVars, cxVars, thVars>>

\* stop(): self._running = False
StdioStop ==
    /\ running
    /\ running' = FALSE
    /\ UNCHANGED <<stdin, stdout, loop, served, rlVars, pvVars, srvVars, authVars, polVars, regVars, cxVars, thVars>>

\* while self._running: the test fails, _run_stdio returns
StdioLeave ==
    /\ loop.pc = "header"
    /\ ~running
    /\ loop' = [loop EXCEPT !.pc = "exited", !.exit = "stopped"]
    /\ UNCHANGED <<running, stdin, stdout, served, rlVars, pvVars, srvVars, authVars, polVars, regVars, cxVars, thVars>>

\* header = await wait_for(reader.readline(), 1.0) returned a line: a
\* Content-Length line gives content_length, any other line is skipped
StdioReadHeader ==
    /\ loop.pc = "header"
    /\ running
    /\ Unread # <<>>
    /\ stdin' = [stdin EXCEPT !.read = @ + 1]
    /\ loop' = IF Unread[1].t = "header"
               THEN [loop EXCEPT !.pc = "blank", !.content_length = Unread[1].n]
               ELSE loop
    /\ UNCHANGED <<running, stdout, served, rlVars, pvVars, srvVars, authVars, polVars, regVars, cxVars, thVars>>

\* readline() returned b"" at the end of the stream: `if not header: continue`
StdioPoll ==
    /\ loop.pc = "header"
    /\ running
    /\ Unread = <<>>
    /\ stdin.closed
    /\ loop' = [loop EXCEPT !.polls = (@ + 1) % (MaxPolls + 1)]
    /\ UNCHANGED <<running, stdin, stdout, served, rlVars, pvVars, srvVars, authVars, polVars, regVars, cxVars, thVars>>

\* await reader.readline(): the line after the header is read and dropped;
\* at the end of the stream it returns b""
StdioReadBlank ==
    /\ loop.pc = "blank"
    /\ \/ /\ Unread # <<>>
          /\ Unread[1].t # "body"
          /\ stdin' = [stdin EXCEPT !.read = @ + 1]
       \/ /\ Unread = <<>>
          /\ stdin.closed
          /\ UNCHANGED stdin
    /\ loop' = [loop EXCEPT !.pc = "content"]
    /\ UNCHANGED <<running, stdout, served, rlVars, pvVars, srvVars, authVars, polVars, regVars, cxVars, thVars>>

\* content = await reader.readexactly(content_length); response = await
\* self.handle_message(message); if response: write the frame and drain.
\* What handle_message raises is caught and logged, the loop goes on.
StdioReadContent ==
    LET m == json_loads(Unread[1].text)
        r == handle_message(m, "anonymous")
    IN
    /\ loop.pc = "content"
    /\ Unread # <<>>
    /\ Unread[1].t = "body"
    /\ Utf8Len(Unread[1].text) = loop.content_length
    /\ Serve(m, r)
    /\ stdin' = [stdin EXCEPT !.read = @ + 1]
    /\ stdout' = IF reply'.kind \in {"single", "batch"}
                 THEN stdout \o StdioFrame(ResponseText(reply'.kind, reply'.responses))
                 ELSE stdout
    /\ served' = Append(served, [pos |-> stdin.read + 1, kind |-> reply'.kind,
                                 responses |-> reply'.responses])
    /\ loop' = [loop EXCEPT !.pc = "header"]
    /\ UNCHANGED <<running, authVars>>

\* readexactly at the end of the stream: IncompleteReadError, "Client
\* disconnected", break; start() sets _running = False on the way out
StdioIncomplete ==
    /\ loop.pc = "content"
    /\ Unread = <<>>
    /\ stdin.closed
    /\ loop' = [loop EXCEPT !.pc = "exited", !.exit = "incomplete"]
    /\ running' = FALSE
    /\ UNCHANGED <<stdin, stdout, served, rlVars, pvVars, srvVars, authVars, polVars, regVars, cxVars, thVars>>

\* the steps of the task that runs _run_stdio
StdioLoop ==
    \/ StdioLeave
    \/ StdioReadHeader
    \/ StdioPoll
    \/ StdioReadBlank
    \/ StdioReadContent
    \/ StdioIncomplete

\* what a client that frames its messages may send next: after a header its
\* empty line, then a body of the announced length; else a header or some
\* other line
NextTokens ==
    LET s == stdin.sent
        n == Len(s)
    IN IF n >= 1 /\ s[n].t = "header" THEN {BlankLine}
       ELSE IF n >= 2 /\ s[n].t = "blank" /\ s[n - 1].t = "header"
       THEN {Body(b) : b \in {x \in StdioTexts : Utf8Len(x) = s[n - 1].n}}
       ELSE {OtherLine} \cup {HeaderLine(Utf8Len(b)) : b \in StdioTexts}

\* the client writes to the server's stdin
StdioArrive(tok) ==
    /\ ~stdin.closed
    /\ Len(stdin.sent) < MaxTokens
    /\ tok \in NextTokens
    /\ stdin' = [stdin EXCEPT !.sent = Append(@, tok)]
    /\ UNCHANGED <<running, stdout, loop, served, rlVars, pvVars, srvVars, authVars, polVars, regVars, cxVars, thVars>>

\* the client closes the stream
StdioClose ==
    /\ ~stdin.closed
    /\ stdin' = [stdin EXCEPT !.closed = TRUE]
    /\ UNCHANGED <<running, stdout, loop, served, rlVars, pvVars, srvVars, authVars, polVars, regVars, cxVars, thVars>>

StdioTokens == {BlankLine, OtherLine} \cup {HeaderLine(Utf8Len(b)) : b \in StdioTexts}
                   \cup {Body(b) : b \in StdioTexts}

StdioNext ==
    \/ StdioStart
    \/ StdioStop
    \/ StdioLoop
    \/ \E tok \in StdioTokens : StdioArrive(tok)
    \/ StdioClose

SpecStdio == StdioInit /\ [][StdioNext]_vars

\* the task that runs _run_stdio is scheduled whenever it can take a step;
\* nothing obliges the client to send or close, or anybody to call stop()
SpecStdioFair == SpecStdio /\ WF_vars(StdioLoop)

(***************************************************************************)
(* security/sandbox.py: the process and registry policies                  *)
(***************************************************************************)
\* longest registry key tried, in parts
MaxKeyLen == 3

\* the parts registry keys are built from (a hive with its backslash, a
\* subkey, the end of "SAMPLE"); no part is the beginning of another, so a
\* key starts with a sensitive path exactly when its parts do
KeyParts ==
    {"HKLM\\", "hklm\\", "HKEY_LOCAL_MACHINE\\", "HKCU\\", "SAM", "SECURITY", "PLE"}

RegistryKeys == UNION {[1..n -> KeyParts] : n \in 0..MaxKeyLen}

RegistryOperations == {"read", "write", "READ"}

\* str.upper() of a part
UpperPart(p) ==
    CASE p = "hklm\\" -> "HKLM\\"
      [] OTHER -> p

\* key_path.upper()
Upper(key) == [i \in DOMAIN key |-> UpperPart(key[i])]

\* sensitive_keys
SensitiveKeys ==
    { <<"HKEY_LOCAL_MACHINE\\", "SAM">>, <<"HKEY_LOCAL_MACHINE\\", "SECURITY">>,
      <<"HKLM\\", "SAM">>, <<"HKLM\\", "SECURITY">> }

\* s.startswith(prefix)
StartsWith(s, prefix) ==
    /\ Len(prefix) <= Len(s)
    /\ SubSeq(s, 1, Len(prefix)) = prefix

\* mutant: the sensitive hives are compared without upper-casing the key
check_registry_access_casesensitive(allow, key_path, operation) ==
    IF ~allow THEN "PermissionError"
    ELSE IF operation # "read" THEN "PermissionError"
    ELSE IF \E sensitive \in SensitiveKeys : StartsWith(key_path, Upper(sensitive))
    THEN "PermissionError"
    ELSE None

\* Sandbox.check_registry_access(key_path, operation): None when it returns,
\* else what it raises
check_registry_access(allow, key_path, operation) ==
    IF ~allow THEN "PermissionError"
    ELSE IF operation # "read" THEN "PermissionError"
    ELSE IF \E sensitive \in SensitiveKeys : StartsWith(Upper(key_path), Upper(sensitive))
    THEN "PermissionError"
    ELSE None

\* protected_processes
ProtectedProcesses ==
    {"system", "csrss.exe", "wininit.exe", "services.exe",
     "lsass.exe", "smss.exe", "winlogon.exe", "explorer.exe"}

\* the process names and operations tried
ProcessNames ==
    {Absent, Str(<<>>), Str(<<"lsass.exe">>), Str(<<"LSASS.EXE">>), Str(<<"Lsass.exe">>),
     Str(<<"System">>), Str(<<"explorer.exe">>), Str(<<"notepad.exe">>),
     Str(<<"lsass">>), Str(<<"lsass.exe", " ">>)}

ProcessOperations == {"start", "stop", "list", "STOP"}

\* str.lower() of a name
LowerPart(p) ==
    CASE p = "LSASS.EXE" -> "lsass.exe"
      [] p = "Lsass.exe" -> "lsass.exe"
      [] p = "System" -> "system"
      [] OTHER -> p

\* process_name.lower() in protected_processes
IsProtectedProcess(name) == Len(name) = 1 /\ LowerPart(name[1]) \in ProtectedProcesses

\* mutant: the protected names are compared as given
check_process_operation_casesensitive(allow, operation, process_name) ==
    IF ~allow THEN "PermissionError"
    ELSE IF operation = "stop" /\ Truthy(process_name)
            /\ Len(process_name.s) = 1 /\ process_name.s[1] \in ProtectedProcesses
    THEN "PermissionError"
    ELSE None

\* Sandbox.check_process_operation(operation, process_name, pid): None when it
\* returns, else what it raises; pid is only logged
check_process_operation(allow, operation, process_name) ==
    IF ~allow THEN "PermissionError"
    ELSE IF operation = "stop" /\ Truthy(process_name) /\ IsProtectedProcess(process_name.s)
    THEN "PermissionError"
    ELSE None

\* Sandbox.__init__ with any settings
PolInit ==
    /\ RLIdle
    /\ PVIdle
    /\ SrvIdle
    /\ AuthIdle
    /\ IoIdle
    /\ RegIdle
    /\ CxIdle
    /\ ThIdle
    /\ allow_process_management \in BOOLEAN
    /\ allow_registry_access \in BOOLEAN
    /\ sbCall = NoCheck

CheckRegistryAccess(key, op) ==
    /\ sbCall = NoCheck
    /\ sbCall' = [fn |-> "check_registry_access", operation |-> op, target |-> Str(key),
                  out |-> check_registry_access(allow_registry_access, key, op)]
    /\ UNCHANGED <<allow_process_management, allow_registry_access,
                   rlVars, pvVars, srvVars, authVars, ioVars, regVars, cxVars, thVars>>

CheckProcessOperation(op, name) ==
    /\ sbCall = NoCheck
    /\ sbCall' = [fn |-> "check_process_operation", operation |-> op, target |-> name,
                  out |-> check_process_operation(allow_process_management, op, name)]
    /\ UNCHANGED <<allow_process_management, allow_registry_access,
                   rlVars, pvVars, srvVars, authVars, ioVars, regVars, cxVars, thVars>>

\* the check returns (or raises) to its caller
PolReturn ==
    /\ sbCall # NoCheck
    /\ sbCall' = NoCheck
    /\ UNCHANGED <<allow_process_management, allow_registry_access,
                   rlVars, pvVars, srvVars, authVars, ioVars, regVars, cxVars, thVars>>

PolNext ==
    \/ \E key \in RegistryKeys, op \in RegistryOperations : CheckRegistryAccess(key, op)
    \/ \E op \in ProcessOperations, name \in ProcessNames : CheckProcessOperation(op, name)
    \/ PolReturn

SpecPolicy == PolInit /\ [][PolNext]_vars

(***************************************************************************)
(* tools/registry.py: register, unregister, execute_tool                   *)
(***************************************************************************)
\* most tool instances that carry the same name
MaxVersions == 2

ToolNames == {"read_file", "write_file", "run_command"}

\* what the execute of the instances of a name does: the first returns a
\* string, the second raises PermissionError, the third raises Exception,
\* any further one returns a failure
ExecuteOf(version) ==
    CASE version = 1 -> "ok_str"
      [] version = 2 -> "PermissionError"
      [] version = 3 -> "Exception"
      [] OTHER -> "fail"

\* a tool instance: its name, which instance of that name it is, its execute
Tool(name, version) == [name |-> name, version |-> version, out |-> ExecuteOf(version)]

ToolInstances == {Tool(n, v) : n \in ToolNames, v \in 1..MaxVersions}

\* the names and arguments execute_tool and unregister are called with
CalledNames == ToolNames \cup {"nonexistent_tool"}
CalledArguments == {"{}", "{self}"}

\* ToolRegistry.register: self._tools[tool.name] = tool
register(reg, tool) ==
    [x \in DOMAIN reg \cup {tool.name} |-> IF x = tool.name THEN tool ELSE reg[x]]

\* ToolRegistry.unregister: del self._tools[name] if it is there
unregister(reg, name) == [x \in DOMAIN reg \ {name} |-> reg[x]]

\* the execute of the tool registered under name, if any
EnvOf(reg, name) == IF name \in DOMAIN reg THEN Env(reg[name].out, "") ELSE EnvOk

\* ToolRegistry.__init__
RegInit ==
    /\ RLIdle
    /\ PVIdle
    /\ SrvIdle
    /\ AuthIdle
    /\ PolIdle
    /\ IoIdle
    /\ RegIdle
    /\ CxIdle
    /\ ThIdle

Register(tool) ==
    /\ regCall = NoRegCall
    /\ registry' = register(registry, tool)
    /\ lastRegistered' = {w \in lastRegistered : w.name # tool.name}
                            \cup {[name |-> tool.name, version |-> tool.version]}
    /\ regCall' = [NoRegCall EXCEPT !.op = "register", !.name = tool.name,
                                    !.version = tool.version]
    /\ UNCHANGED <<rlVars, pvVars, srvVars, authVars, polVars, ioVars, cxVars, thVars>>

\* ToolRegistry.unregister(name): whether the name was there
Unregister(name) ==
    /\ regCall = NoRegCall
    /\ registry' = unregister(registry, name)
    /\ lastRegistered' = {w \in lastRegistered : w.name # name}
    /\ regCall' = [NoRegCall EXCEPT !.op = "unregister", !.name = name,
                                    !.ret = (name \in DOMAIN registry)]
    /\ UNCHANGED <<rlVars, pvVars, srvVars, authVars, polVars, ioVars, cxVars, thVars>>

\* ToolRegistry.execute_tool(name, arguments): which instance ran and the
\* ToolResult handed back (or the exception that left execute_tool)
ExecuteTool(name, arguments) ==
    /\ regCall = NoRegCall
    /\ regCall' = [op |-> "execute_tool", name |-> name, arguments |-> arguments,
                   version |-> IF name \in DOMAIN registry THEN registry[name].version ELSE 0,
                   ret |-> FALSE,
                   result |-> execute_tool(DOMAIN registry, name, arguments,
                                           EnvOf(registry, name))]
    /\ UNCHANGED <<registry, lastRegistered, rlVars, pvVars, srvVars, authVars, polVars, ioVars, cxVars, thVars>>

\* the call returns to its caller
RegReturn ==
    /\ regCall # NoRegCall
    /\ regCall' = NoRegCall
    /\ UNCHANGED <<registry, lastRegistered, rlVars, pvVars, srvVars, authVars, polVars, ioVars, cxVars, thVars>>

RegNext ==
    \/ \E tool \in ToolInstances : Register(tool)
    \/ \E name \in CalledNames : Unregister(name)
    \/ \E name \in CalledNames, arguments \in CalledArguments : ExecuteTool(name, arguments)
    \/ RegReturn

SpecRegistry == RegInit /\ [][RegNext]_vars

(***************************************************************************)
(* protocol/handler.py: requests handled side by side (HTTP transport) and *)
(* notifications/cancelled                                                 *)
(***************************************************************************)
\* the ids of the requests that run side by side; RequestIds[i] for i up to
\* MaxInflight
MaxInflight == 4
RequestIds == {ToString(i) : i \in 1..MaxInflight}

\* the requestId values notifications/cancelled is sent with
CancelParams == {PNone, PCancel(BadId)} \cup {PCancel(i) : i \in RequestIds}

\* self._pending_requests after handle_request started the handler of request
\* id: handle_request awaits the handler and never writes to the table
Pending(pend, id) == pend

\* the tasks _handle_cancelled calls cancel() on: the task found under
\* requestId in the pending table, if there is one
CancelledTasks(params, pend) ==
    IF Falsy(params) \/ params.requestId \in {"-", BadId} THEN {}
    ELSE IF params.requestId \in pend THEN {params.requestId}
    ELSE {}

CxInit ==
    /\ RLIdle
    /\ PVIdle
    /\ SrvIdle
    /\ AuthIdle
    /\ PolIdle
    /\ IoIdle
    /\ RegIdle
    /\ CxIdle
    /\ ThIdle

\* a request with this id is received; handle_request awaits its handler
BeginRequest(id) ==
    /\ id \notin inflight
    /\ inflight' = inflight \cup {id}
    /\ pending_requests' = Pending(pending_requests, id)
    /\ cancel_requested' = cancel_requested \ {id}
    /\ cxCall' = [op |-> "begin", id |-> id]
    /\ UNCHANGED <<initialized, client_capabilities, tools, msg, reply,
                   rlVars, pvVars, authVars, polVars, ioVars, regVars, thVars>>

\* the handler of the request finishes and the response is returned
FinishRequest(id) ==
    /\ id \in inflight
    /\ inflight' = inflight \ {id}
    /\ cxCall' = [op |-> "finish", id |-> id]
    /\ UNCHANGED <<cancel_requested, srvVars, rlVars, pvVars, authVars, polVars, ioVars, regVars, thVars>>

\* a notifications/cancelled message is handled while other requests run
Cancelled(params) ==
    LET h == handle_cancelled(ToDict(params), HandlerState, pending_requests) IN
    /\ cancel_requested' = cancel_requested \cup CancelledTasks(params, pending_requests)
    /\ cxCall' = [op |-> "cancelled", id |-> params.requestId]
    /\ initialized' = h.st.initialized
    /\ client_capabilities' = h.st.client_capabilities
    /\ UNCHANGED <<inflight, pending_requests, tools, msg, reply,
                   rlVars, pvVars, authVars, polVars, ioVars, regVars, thVars>>

CxNext ==
    \/ \E id \in RequestIds : BeginRequest(id)
    \/ \E id \in RequestIds : FinishRequest(id)
    \/ \E params \in CancelParams : Cancelled(params)

SpecCancel == CxInit /\ [][CxNext]_vars

(***************************************************************************)
(* security/rate_limiter.py, statement by statement, called from threads   *)
(* (specification SpecThreads)                                             *)
(***************************************************************************)
\* is_allowed calls one thread makes
MaxCalls == 2

\* RateLimitState(): an empty list and a lock nobody holds
RateLimitState == [requests |-> <<>>, lock |-> None]

ThInit ==
    /\ RLIdle
    /\ PVIdle
    /\ SrvIdle
    /\ AuthIdle
    /\ PolIdle
    /\ IoIdle
    /\ RegIdle
    /\ CxIdle
    /\ ThIdle

\* a thread enters is_allowed(c): now = time.time()
ThCall(th, c) ==
    /\ threads[th].pc = "idle"
    /\ threads[th].calls < MaxCalls
    /\ threads' = [threads EXCEPT ![th] = [pc |-> "lookup", client |-> c, now |-> now,
                                           state |-> NoState, calls |-> @.calls + 1]]
    /\ UNCHANGED <<states, bucket_refs, admitted, rlVars, pvVars, srvVars, authVars, polVars,
                   ioVars, regVars, cxVars>>

\* state = self._buckets[client_id], the key is there: the object stored
ThLookupHit(th) ==
    /\ threads[th].pc = "lookup"
    /\ threads[th].client \in DOMAIN bucket_refs
    /\ threads' = [threads EXCEPT ![th].pc = "acquire",
                                  ![th].state = bucket_refs[threads[th].client]]
    /\ UNCHANGED <<states, bucket_refs, admitted, rlVars, pvVars, srvVars, authVars, polVars,
                   ioVars, regVars, cxVars>>

\* state = self._buckets[client_id], the key is missing: defaultdict.__missing__
\* calls the factory RateLimitState(); its result is stored by the next step
ThLookupMiss(th) ==
    /\ threads[th].pc = "lookup"
    /\ threads[th].client \notin DOMAIN bucket_refs
    /\ states' = Append(states, RateLimitState)
    /\ threads' = [threads EXCEPT ![th].pc = "setitem", ![th].state = Len(states) + 1]
    /\ UNCHANGED <<bucket_refs, admitted, rlVars, pvVars, srvVars, authVars, polVars,
                   ioVars, regVars, cxVars>>

\* defaultdict.__missing__ stores the object the factory returned under the
\* key, whatever is there by now, and returns it
ThSetItem(th) ==
    /\ threads[th].pc = "setitem"
    /\ bucket_refs' = [c \in DOMAIN bucket_refs \cup {threads[th].client} |->
                          IF c = threads[th].client THEN threads[th].state ELSE bucket_refs[c]]
    /\ threads' = [threads EXCEPT ![th].pc = "acquire"]
    /\ UNCHANGED <<states, admitted, rlVars, pvVars, srvVars, authVars, polVars,
                   ioVars, regVars, cxVars>>

\* with state.lock: the thread waits until nobody holds the lock of its object
ThAcquire(th) ==
    /\ threads[th].pc = "acquire"
    /\ states[threads[th].state].lock = None
    /\ states' = [states EXCEPT ![threads[th].state].lock = th]
    /\ threads' = [threads EXCEPT ![th].pc = "prune"]
    /\ UNCHANGED <<bucket_refs, admitted, rlVars, pvVars, srvVars, authVars, polVars,
                   ioVars, regVars, cxVars>>

\* state.requests = [ts for ts in state.requests if ts > cutoff]
ThPrune(th) ==
    /\ threads[th].pc = "prune"
    /\ states' = [states EXCEPT ![threads[th].state].requests = Unexpired(@, threads[th].now)]
    /\ threads' = [threads EXCEPT ![th].pc = "test"]
    /\ UNCHANGED <<bucket_refs, admitted, rlVars, pvVars, srvVars, authVars, polVars,
                   ioVars, regVars, cxVars>>

\* at the limit: return False; the lock is released on the way out
ThReject(th) ==
    /\ threads[th].pc = "test"
    /\ Len(states[threads[th].state].requests) >= MaxRequests
    /\ states' = [states EXCEPT ![threads[th].state].lock = None]
    /\ threads' = [threads EXCEPT ![th].pc = "idle"]
    /\ UNCHANGED <<bucket_refs, admitted, rlVars, pvVars, srvVars, authVars, polVars,
                   ioVars, regVars, cxVars>>

\* under the limit: state.requests.append(now); return True; the lock is released
ThAdmit(th) ==
    /\ threads[th].pc = "test"
    /\ Len(states[threads[th].state].requests) < MaxRequests
    /\ states' = [states EXCEPT ![threads[th].state] =
                      [requests |-> Append(@.requests, threads[th].now), lock |-> None]]
    /\ admitted' = Append(admitted, [client |-> threads[th].client, t |-> threads[th].now,
                                     state |-> threads[th].state])
    /\ threads' = [threads EXCEPT ![th].pc = "idle"]
    /\ UNCHANGED <<bucket_refs, rlVars, pvVars, srvVars, authVars, polVars,
                   ioVars, regVars, cxVars>>

ThNext ==
    \/ Tick
    \/ \E th \in Threads, c \in Clients : ThCall(th, c)
    \/ \E th \in Threads : ThLookupHit(th)
    \/ \E th \in Threads : ThLookupMiss(th)
    \/ \E th \in Threads : ThSetItem(th)
    \/ \E th \in Threads : ThAcquire(th)
    \/ \E th \in Threads : ThPrune(th)
    \/ \E th \in Threads : ThReject(th)
    \/ \E th \in Threads : ThAdmit(th)

SpecThreads == ThInit /\ [][ThNext]_vars

(***************************************************************************)
(* Claims about the RateLimiter (specification SpecRL)                     *)
(***************************************************************************)
\* C3: for a client with no requests on record (never called, or just reset),
\* of the is_allowed calls made within one window of the first, exactly the
\* first MaxRequests return true and the next one returns false.
C3_FirstNAllowedThenBlocked ==
    \A c \in Clients : \A i \in 1..Len(hist[c]) :
        hist[c][i].ok = (i <= MaxRequests)

\* a client ran into the limit inside its first window
C3_Witness ==
    \E c \in Clients :
        /\ Len(hist[c]) = MaxRequests + 1
        /\ hist[c][1].ok
        /\ ~hist[c][MaxRequests + 1].ok
        /\ hist[c][MaxRequests + 1].at - hist[c][1].at < WindowSeconds

\* C4: distinct clients never share quota: every call for a client b returns
\* what it returns in a limiter that never saw another client's calls, and
\* b's bucket is the bucket of that limiter.
C4_NoSharedQuota ==
    /\ rlRet.ret = soloRet
    /\ \A b \in Clients :
          /\ Requests(buckets, b) = Requests(solo[b], b)
          /\ (b \in DOMAIN buckets) = (b \in DOMAIN solo[b])

\* a client is admitted while another client has used up its whole quota
C4_Witness ==
    /\ rlRet.op = "is_allowed"
    /\ rlRet.ret = TRUE
    /\ \E a \in Clients \ {rlRet.client} :
          Len(Unexpired(Requests(buckets, a), now)) = MaxRequests

(***************************************************************************)
(* Claims about the message pipeline (specification Spec)                  *)
(***************************************************************************)
\* handle_message got as far as dispatching the decoded payload
Dispatched == reply.admitted /\ msg.kind \in {"single", "batch"}

\* the responses _handle_single_request returned, in the order it was called
RECURSIVE Returns(_)
Returns(trace) ==
    IF trace = <<>> THEN <<>>
    ELSE IF trace[1].raises \/ trace[1].resp.none THEN Returns(Tail(trace))
    ELSE <<trace[1].resp>> \o Returns(Tail(trace))

\* C1: a single request with id null gets no reply from handle_message,
\* whether its handler succeeds, its method is unknown, or its handler raises.
C1_NotificationsUnanswered ==
    (/\ msg.kind = "single"
     /\ reply.admitted
     /\ model_validate_ok(msg.items[1])
     /\ msg.items[1].id = Null) => reply.kind = "none"

\* a notification whose handler raised was dropped without a reply
C1_Witness ==
    /\ msg.kind = "single"
    /\ reply.admitted
    /\ msg.items[1].id = Null
    /\ reply.trace[1].ran
    /\ reply.trace[1].exc # "none"
    /\ reply.kind = "none"

\* C2: a batch of requests is handled element by element in array order; the
\* reply holds exactly the responses of the elements with an id, in input
\* order, each under its element's id; without such an element there is no
\* reply at all.
C2_BatchReplies ==
    (/\ msg.kind = "batch"
     /\ reply.admitted
     /\ \A i \in 1..Len(msg.items) : model_validate_ok(msg.items[i])) =>
        LET k == Len(msg.items)
            answered == {i \in 1..k : msg.items[i].id # Null}
        IN
        /\ Len(reply.trace) = k
        /\ \A i \in 1..k : reply.trace[i].idx = i
        /\ \A i \in 1..k : (i \in answered) = ~reply.trace[i].resp.none
        /\ \A i \in answered : reply.trace[i].resp.id = msg.items[i].id
        /\ reply.responses = Returns(reply.trace)
        /\ Len(reply.responses) = Cardinality(answered)
        /\ reply.kind = (IF answered = {} THEN "none" ELSE "batch")

\* a batch of a notification followed by requests is answered for the requests only
C2_Witness ==
    /\ msg.kind = "batch"
    /\ reply.admitted
    /\ \A i \in 1..Len(msg.items) : model_validate_ok(msg.items[i])
    /\ \E i, j \in 1..Len(msg.items) :
          /\ i < j
          /\ msg.items[i].id = Null
          /\ msg.items[j].id # Null
    /\ reply.kind = "batch"
    /\ Len(reply.responses) = Len(msg.items) - 1

\* a tools/call request with an id whose params parse as ToolCallParams
IsToolCall(p) ==
    /\ model_validate_ok(p)
    /\ strip(p.method.text) = <<"tools/call">>
    /\ p.id # Null
    /\ p.params.shape = "dict"
    /\ p.params.name \in {"read_file", "nonexistent_tool"}
    /\ p.params.arguments \in {"-", "{}", "{self}"}

\* the tool name is not registered, the tool returned a failed ToolResult, or
\* an exception was raised while the tool was dispatched
ToolDispatchFails(p) ==
    \/ p.params.name \notin tools
    \/ p.env.out \in {"fail", "fail_noerror"}
    \/ p.env.out \in ToolRaises
    \/ p.env.out = "ok_unserializable"
    \/ p.params.arguments = "{self}"

\* C8: every tools/call request with well-formed params and an id is answered
\* with a result, never an error object, that holds one text block, and
\* isError is true exactly when the tool is unknown, failed, or its dispatch
\* raised.
C8_ToolCallAlwaysResult ==
    Dispatched =>
        \A i \in 1..Len(reply.trace) : IsToolCall(msg.items[i]) =>
            LET r == reply.trace[i].resp IN
            /\ ~reply.trace[i].raises
            /\ ~r.none
            /\ r.id = msg.items[i].id
            /\ r.error.isNone
            /\ r.result.kind = "tool_call"
            /\ r.result.blocks = 1
            /\ r.result.isError = ToolDispatchFails(msg.items[i])

\* a registered tool whose dispatch raised is answered with an isError result
C8_Witness ==
    /\ Dispatched
    /\ msg.kind = "single"
    /\ IsToolCall(msg.items[1])
    /\ msg.items[1].params.name \in tools
    /\ msg.items[1].params.arguments = "{self}"
    /\ reply.kind = "single"
    /\ reply.responses[1].error.isNone
    /\ reply.responses[1].result.isError

\* C9: every failure of a request with an id is answered with one error whose
\* code is in the enumeration; what a handler raised decides the code:
\* ValueError -32602, PermissionError -32004, TimeoutError -32007, else -32603.
C9_FailureCodes ==
    /\ \A j \in 1..Len(reply.responses) :
          ~reply.responses[j].error.isNone => reply.responses[j].error.code \in ErrorCode
    /\ Dispatched =>
          \A i \in 1..Len(reply.trace) :
              LET l == reply.trace[i]
                  failed == l.exc # "none" \/ ~l.ran
              IN
              (~l.raises /\ msg.items[i].id \in GoodIds /\ failed) =>
                  /\ ~l.resp.none
                  /\ l.resp.result = NullResult
                  /\ ~l.resp.error.isNone
                  /\ l.resp.error.code \in ErrorCode
                  /\ l.exc = "ValueError" => l.resp.error.code = -32602
                  /\ l.exc = "PermissionError" => l.resp.error.code = -32004
                  /\ l.exc = "TimeoutError" => l.resp.error.code = -32007
                  /\ l.exc \notin {"none", "ValueError", "PermissionError", "TimeoutError"}
                        => l.resp.error.code = -32603
    /\ (msg.kind = "single" /\ reply.kind \notin {"none", "raised"})
          => Len(reply.responses) = 1

\* a handler that raised PermissionError is answered with one -32004 error
C9_Witness ==
    /\ Dispatched
    /\ msg.kind = "single"
    /\ msg.items[1].id \in GoodIds
    /\ reply.trace[1].exc = "PermissionError"
    /\ reply.kind = "single"
    /\ Len(reply.responses) = 1
    /\ reply.responses[1].error.code = -32004

Rejected == reply.kind # "idle" /\ ~reply.admitted

\* what get_reset_time gave when the message in hand was handled
ResetTimeThen == get_reset_time(buckets, reply.client, reply.at).ret

\* C11 as stated: a rejected caller gets one -32006 error whose hint equals
\* get_reset_time(client) at that moment; nothing is parsed or dispatched.
C11_Original ==
    Rejected =>
        /\ reply.kind = "single"
        /\ Len(reply.responses) = 1
        /\ reply.responses[1].error.code = -32006
        /\ reply.responses[1].error.hint * TicksPerSecond = ResetTimeThen
        /\ reply.trace = <<>>

\* C11: a rejected caller gets one -32006 error with id null whose message
\* gives get_reset_time(client) at that moment rounded to whole seconds;
\* the message is neither parsed nor dispatched.
C11_RateLimitedReply ==
    Rejected =>
        /\ reply.kind = "single"
        /\ Len(reply.responses) = 1
        /\ reply.responses[1].id = Null
        /\ reply.responses[1].result = NullResult
        /\ ~reply.responses[1].error.isNone
        /\ reply.responses[1].error.code = -32006
        /\ LET h == reply.responses[1].error.hint IN
           /\ h >= 0
           /\ 2 * h * TicksPerSecond >= 2 * ResetTimeThen - TicksPerSecond
           /\ 2 * h * TicksPerSecond <= 2 * ResetTimeThen + TicksPerSecond
        /\ reply.trace = <<>>

\* a caller over its quota is refused a message that would otherwise be
\* dispatched, with part of a second left to wait
C11_Witness ==
    /\ Rejected
    /\ msg.kind \in {"single", "batch"}
    /\ ResetTimeThen > 0
    /\ ResetTimeThen % TicksPerSecond # 0
    /\ reply.responses[1].error.code = -32006

(***************************************************************************)
(* Claims about the Authenticator (specification SpecAuth)                 *)
(***************************************************************************)
\* authenticate has just returned
Authenticated == authRet.op = "authenticate"

\* the credentials presented to authenticate name a key of the table
MatchesKey(a, b) ==
    \/ a.present /\ a.s \in DOMAIN api_keys
    \/ b.present /\ BearerKey(b.s) \in DOMAIN api_keys

\* C13: with require_auth false, authenticate succeeds as "anonymous" for every
\* combination of credentials.
C13_NoAuthAnonymous ==
    (Authenticated /\ ~require_auth) =>
        /\ authRet.authenticated
        /\ authRet.client_id = "anonymous"
        /\ authRet.error = None

\* without require_auth a key that is in no table entry still gets in
C13_Witness ==
    /\ Authenticated
    /\ ~require_auth
    /\ api_keys # <<>>
    /\ Truthy(authRet.api_key)
    /\ ~MatchesKey(authRet.api_key, authRet.bearer_token)
    /\ authRet.authenticated
    /\ authRet.client_id = "anonymous"

\* C14: with require_auth true, credentials that match no key of the table, or
\* no credentials, give authenticated = false, a non-empty error string and
\* no client identity.
C14_NoMatchFails ==
    (/\ Authenticated
     /\ require_auth
     /\ ~MatchesKey(authRet.api_key, authRet.bearer_token)) =>
        /\ ~authRet.authenticated
        /\ authRet.error \in {"Invalid API key", "Invalid bearer token", "Authentication required"}
        /\ authRet.client_id = None

\* a bearer token that names no key is refused while the table holds keys
C14_Witness ==
    /\ Authenticated
    /\ require_auth
    /\ api_keys # <<>>
    /\ ~Truthy(authRet.api_key)
    /\ Truthy(authRet.bearer_token)
    /\ ~MatchesKey(authRet.api_key, authRet.bearer_token)
    /\ ~authRet.authenticated
    /\ authRet.error = "Invalid bearer token"

\* C15: with require_auth true and no API key, authenticate(bearer_token =
\* "Bearer " + k) gives the same flag and identity as authenticate(api_key = k).
C15_BearerSameAsKey ==
    (/\ Authenticated
     /\ require_auth
     /\ authRet.api_key.present
     /\ authRet.bearer_token = Absent) =>
        LET k == authRet.api_key.s
            r == authenticate(api_keys, require_auth, Absent, Str(<<"Bearer ">> \o k))
        IN
        /\ r.authenticated = authRet.authenticated
        /\ r.client_id = authRet.client_id

(***************************************************************************)
(* Claims about the HTTP transport (specification SpecHttp)                *)
(***************************************************************************)
\* a POST is being answered on a server that requires authentication
Posted == http.status # 0 /\ require_auth

\* the credentials of the POST in hand fail authentication
FailsAuth == ~authenticate(api_keys, require_auth, http.api_key, http.bearer).authenticated

\* the client identity the key of the POST in hand maps to
KeyIdentity ==
    api_keys[IF Truthy(http.api_key) THEN http.api_key.s ELSE BearerKey(http.bearer.s)]

\* a POST refused with 401: error -32003, nothing counted, parsed or dispatched
Refused401 ==
    /\ http.status = 401
    /\ http.code = -32003
    /\ http.error \notin {"", None}
    /\ ~http.handled
    /\ buckets = http.before
    /\ msg = NoMsg
    /\ reply = NoReply

\* C12 as stated: failed credentials get 401 with -32003 and the body is not
\* counted, parsed or dispatched; a POST that authenticates is handled under
\* the client identity the key maps to.
C12_Original ==
    Posted =>
        IF FailsAuth THEN Refused401
        ELSE /\ http.status # 401
             /\ http.handled => reply.client = KeyIdentity

\* C12: failed credentials get 401 with -32003 and the body is not counted,
\* parsed or dispatched; a POST that authenticates is handled under the
\* client identity the key maps to, or under "unknown" when that is empty.
C12_HttpAuthGate ==
    Posted =>
        IF FailsAuth THEN Refused401
        ELSE /\ http.status # 401
             /\ http.handled =>
                   reply.client = (IF KeyIdentity = "" THEN "unknown" ELSE KeyIdentity)

\* a POST with a key nobody holds is refused although its caller had quota
\* and its body was a valid request
C12_Witness ==
    /\ Posted
    /\ Truthy(http.api_key)
    /\ FailsAuth
    /\ http.status = 401
    /\ http.before # <<>>
    /\ buckets = http.before

(***************************************************************************)
(* Claims about reset (specification SpecReset)                            *)
(***************************************************************************)
\* C17: after reset(client) or reset_all, whatever came before, the next
\* max_requests calls of is_allowed(client) within one window all return true.
C17_ResetRestoresQuota ==
    \A c \in wasReset :
        \A i \in 1..Len(hist[c]) : i <= MaxRequests => hist[c][i].ok

\* a client reset after the start was then admitted max_requests times, while
\* another client, never reset, has run into its limit
C17_Witness ==
    \E c \in wasReset :
        /\ Len(hist[c]) >= MaxRequests
        /\ \A i \in 1..MaxRequests : hist[c][i].ok
        /\ hist[c][1].at > 0
        /\ \E a \in Clients \ {c} : Len(hist[a]) > MaxRequests /\ a \notin wasReset

(***************************************************************************)
(* Claims about the sliding window (specification SpecRL)                  *)
(***************************************************************************)
\* the step is a call of is_allowed(c): the clock stands still and the call
\* on record afterwards is that one
IsAllowedStep(c) ==
    /\ now' = now
    /\ rlRet'.op = "is_allowed"
    /\ rlRet'.client = c
    /\ wasReset' = wasReset
    /\ hist' = [hist EXCEPT ![c] = Record(@, now, rlRet'.ret)]

\* C16: for a client whose bucket holds max_requests timestamps, is_allowed
\* returns false while less than window_seconds have passed since the oldest
\* of them and true once window_seconds have passed, a timestamp exactly
\* window_seconds old counting as expired; no reset is involved.
C16_SlidingWindow ==
    [][\A c \in Clients :
          (IsAllowedStep(c) /\ Len(Requests(buckets, c)) = MaxRequests) =>
              rlRet'.ret = (now - SeqMin(Requests(buckets, c)) >= WindowSeconds)]_vars

\* a client that was refused is admitted again, without a reset, at the very
\* moment its oldest admission is window_seconds old
C16_Witness ==
    \E c \in Clients :
        /\ rlRet.op = "is_allowed"
        /\ rlRet.client = c
        /\ rlRet.ret = TRUE
        /\ Len(hist[c]) = MaxRequests + 1
        /\ ~hist[c][MaxRequests + 1].ok
        /\ now = hist[c][1].at + WindowSeconds
        /\ Requests(buckets, c)[Len(Requests(buckets, c))] = now

(***************************************************************************)
(* Claims about the allow list (specification SpecPath)                    *)
(***************************************************************************)
\* the path string names a place at or below one of the roots
Under(raw, roots) == Resolvable(raw) /\ UnderSome(resolve(raw), roots)

\* is_allowed was called with a path without ".." that is under no blocked root
Unblocked ==
    /\ Called("is_allowed")
    /\ ~HasDotDot(pvCall.path)
    /\ ~Under(pvCall.path, blocked_paths)

\* C18 as stated: for a path without ".." under no blocked root, is_allowed
\* is true when no allowed roots are configured, and otherwise true exactly
\* when the path is at or below an allowed root.
C18_Original ==
    Unblocked =>
        pvCall.out.val = (allowed_paths = <<>> \/ Under(pvCall.path, allowed_paths))

\* C18: the same for every path that can be resolved; a path that cannot be
\* resolved is refused whatever the lists are.
C18_AllowList ==
    /\ (Unblocked /\ Resolvable(pvCall.path)) =>
          pvCall.out.val = (allowed_paths = <<>> \/ Under(pvCall.path, allowed_paths))
    /\ (Called("is_allowed") /\ ~Resolvable(pvCall.path)) => pvCall.out.val = FALSE

\* with allowed roots configured, a path under neither list is refused
C18_Witness ==
    /\ Unblocked
    /\ Resolvable(pvCall.path)
    /\ allowed_paths # <<>>
    /\ blocked_paths # <<>>
    /\ ~Under(pvCall.path, allowed_paths)
    /\ pvCall.out.val = FALSE

(***************************************************************************)
(* Claims about text that is no JSON and about unknown methods             *)
(* (specification Spec)                                                    *)
(***************************************************************************)
\* C19: a message body that is not valid JSON, from a caller the rate limiter
\* admits, is answered with exactly one error response of code -32700 and id
\* null, and neither _handle_single_request nor the protocol handler is called.
C19_ParseError ==
    (msg.kind = "garbage" /\ reply.admitted) =>
        /\ reply.kind = "single"
        /\ Len(reply.responses) = 1
        /\ ~reply.responses[1].error.isNone
        /\ reply.responses[1].error.code = -32700
        /\ reply.responses[1].error.code = PARSE_ERROR
        /\ reply.responses[1].id = Null
        /\ reply.responses[1].result = NullResult
        /\ reply.trace = <<>>

\* text that is no JSON arrived after the handshake and was answered with the
\* parse error
C19_Witness ==
    /\ msg.kind = "garbage"
    /\ reply.admitted
    /\ initialized
    /\ reply.responses[1].error.code = PARSE_ERROR

\* the payload is a valid request whose method, as the handler receives it, is
\* not a key of the table
UnknownMethod(data) ==
    /\ model_validate_ok(data)
    /\ model_validate(data).method \notin Handlers

\* what _handle_single_request returned for an element with an unknown method:
\* nothing for a notification, else the MethodNotFound error under the
\* element's id; no handler ran
UnknownMethodLine(data, line) ==
    /\ ~line.raises
    /\ ~line.ran
    /\ IF data.id = Null THEN line.resp = NoResponse
       ELSE /\ ~line.resp.none
            /\ line.resp.id = data.id
            /\ line.resp.result = NullResult
            /\ ~line.resp.error.isNone
            /\ line.resp.error.code = -32601
            /\ line.resp.error.code = METHOD_NOT_FOUND

\* handle_message handled a message of an admitted caller in this step
Handles == reply.kind = "idle" /\ reply'.kind # "idle" /\ reply'.admitted

\* C20: dispatch is by the method string over the six-entry table: a request
\* with an id whose method is no key of the table gets the -32601 error under
\* its id, a notification with such a method gets no reply, no handler runs for
\* either, and the handler state stays as it was.
C20_UnknownMethod ==
    [][Handles =>
         /\ \A i \in 1..Len(reply'.trace) :
               UnknownMethod(msg'.items[reply'.trace[i].idx]) =>
                   UnknownMethodLine(msg'.items[reply'.trace[i].idx], reply'.trace[i])
         /\ (msg'.kind = "single" /\ UnknownMethod(msg'.items[1])) =>
               /\ Len(reply'.trace) = 1
               /\ reply'.kind = (IF msg'.items[1].id = Null THEN "none" ELSE "single")
               /\ reply'.responses = Returns(reply'.trace)
               /\ UNCHANGED hdVars
      ]_vars

\* after the handshake, a request with an id and a method that differs from a
\* key of the table only in case was answered with MethodNotFound
C20_Witness ==
    /\ msg.kind = "single"
    /\ reply.admitted
    /\ initialized
    /\ UnknownMethod(msg.items[1])
    /\ msg.items[1].method = MUpperPing
    /\ msg.items[1].id # Null
    /\ reply.kind = "single"
    /\ reply.responses[1].error.code = METHOD_NOT_FOUND

(***************************************************************************)
(* Claims about malformed envelopes and notifications (specification Spec) *)
(***************************************************************************)
\* C21: every decoded payload or batch element that is not a valid request is
\* answered with an InvalidRequest (-32600) error response, and handle_message
\* does not raise.
C21_InvalidRequestSurfaced ==
    Dispatched =>
        /\ reply.kind # "raised"
        /\ \A i \in 1..Len(reply.trace) :
              ~model_validate_ok(msg.items[reply.trace[i].idx]) =>
                  /\ ~reply.trace[i].raises
                  /\ ~reply.trace[i].resp.none
                  /\ reply.trace[i].resp.error.code = INVALID_REQUEST


\* C22: a request with id null gets no reply from handle_message in any case:
\* not when its caller is rate limited, not when its envelope is invalid.
C22_NotificationsNeverAnswered ==
    (/\ reply.kind # "idle"
     /\ msg.kind = "single"
     /\ msg.items[1].t = "obj"
     /\ msg.items[1].id = Null) => reply.kind = "none"


(***************************************************************************)
(* Claims about the stdio transport (specifications SpecStdio and           *)
(* SpecStdioFair)                                                           *)
(***************************************************************************)
\* the stream ended between frames: closed, everything sent was read, and the
\* loop is waiting for a header
CleanEof ==
    /\ running
    /\ loop.pc = "header"
    /\ stdin.closed
    /\ Unread = <<>>

\* C23: after a clean end of the input stream the read loop eventually ends.
C23_EofEndsLoop == CleanEof ~> (loop.pc = "exited")


\* the texts handle_message returned for the bodies served, in the order served
RECURSIVE RepliesOf(_)
RepliesOf(s) ==
    IF s = <<>> THEN <<>>
    ELSE (IF Head(s).kind \in {"single", "batch"}
          THEN <<ResponseText(Head(s).kind, Head(s).responses)>> ELSE <<>>)
         \o RepliesOf(Tail(s))

\* the output read back the way the loop reads its input: a header, the empty
\* line, and a body of exactly the announced number of bytes, again and again
Framed(out) ==
    /\ Len(out) % 3 = 0
    /\ \A k \in 1..(Len(out) \div 3) :
          /\ out[3 * k - 2].t = "header"
          /\ out[3 * k - 1] = BlankLine
          /\ out[3 * k].t = "body"
          /\ out[3 * k - 2].n = Utf8Len(out[3 * k].text)

\* the bodies of the frames of the output, in order
BodiesOf(out) == [k \in 1..(Len(out) \div 3) |-> out[3 * k].text]

\* C24: the framed bodies are handled once each, in arrival order; every reply
\* is written as a Content-Length frame before the next body is handled, so the
\* output holds the replies in the order of their messages; a line that is no
\* Content-Length header is skipped and does not end the loop.
C24_StdioInOrder ==
    /\ \A i \in 1..Len(served) :
          /\ served[i].pos <= stdin.read
          /\ stdin.sent[served[i].pos].t = "body"
          /\ \A j \in 1..Len(served) : i < j => served[i].pos < served[j].pos
    /\ \A p \in 1..stdin.read :
          stdin.sent[p].t = "body" => \E i \in 1..Len(served) : served[i].pos = p
    /\ Framed(stdout)
    /\ BodiesOf(stdout) = RepliesOf(served)
    /\ loop.pc = "exited" =>
          \/ loop.exit = "stopped" /\ ~running
          \/ /\ loop.exit = "incomplete"
             /\ stdin.closed
             /\ stdin.read >= 1
             /\ stdin.sent[stdin.read].t \in {"header", "blank"}

\* a line that is no header was skipped, then two framed requests were handled
\* and answered in their order, the second reply holding a two-byte character
C24_Witness ==
    /\ stdin.read = 7
    /\ stdin.sent[1] = OtherLine
    /\ Len(served) = 2
    /\ served[1].kind = "single"
    /\ served[2].kind = "single"
    /\ served[1].responses[1].id = "1"
    /\ served[2].responses[1].id = EAcute
    /\ Len(stdout) = 6
    /\ stdout[4].n = Chars(stdout[6].text) + 1
    /\ loop.pc = "header"
    /\ running

(***************************************************************************)
(* Claims about the registry and process policies (specification           *)
(* SpecPolicy)                                                             *)
(***************************************************************************)
\* the key begins, whatever the case of its letters, with a sensitive hive path
IsSensitive(key) ==
    \E hive \in {"HKLM\\", "hklm\\", "HKEY_LOCAL_MACHINE\\"}, sub \in {"SAM", "SECURITY"} :
        StartsWith(key, <<hive, sub>>)

\* C25: check_registry_access returns without error exactly when registry
\* access is enabled, the operation is "read" and the key does not start,
\* case-insensitively, with a sensitive hive path; otherwise it raises
\* PermissionError.
C25_RegistryReadOnly ==
    sbCall.fn = "check_registry_access" =>
        /\ sbCall.out \in {None, "PermissionError"}
        /\ sbCall.out = None <=>
              /\ allow_registry_access
              /\ sbCall.operation = "read"
              /\ ~IsSensitive(sbCall.target.s)

\* a read of hklm\SAMPLE, which begins with a sensitive path written in
\* lower case, was refused
\* although registry access is enabled
C25_Witness ==
    /\ sbCall.fn = "check_registry_access"
    /\ allow_registry_access
    /\ sbCall.operation = "read"
    /\ sbCall.target.s = <<"hklm\\", "SAM", "PLE">>
    /\ sbCall.out = "PermissionError"

\* the name, whatever the case of its letters, is one of the protected processes
IsProtectedName(name) ==
    name \in {<<"lsass.exe">>, <<"LSASS.EXE">>, <<"Lsass.exe">>, <<"System">>, <<"explorer.exe">>}

\* C26: check_process_operation raises PermissionError for every operation
\* when process management is off, and for every "stop" of a protected
\* process name, compared case-insensitively, whatever the settings are.
C26_ProtectedProcesses ==
    sbCall.fn = "check_process_operation" =>
        /\ ~allow_process_management => sbCall.out = "PermissionError"
        /\ (/\ sbCall.operation = "stop"
            /\ sbCall.target.present
            /\ IsProtectedName(sbCall.target.s)) => sbCall.out = "PermissionError"

\* with process management on, stopping LSASS.EXE was refused
C26_Witness ==
    /\ sbCall.fn = "check_process_operation"
    /\ allow_process_management
    /\ sbCall.operation = "stop"
    /\ sbCall.target = Str(<<"LSASS.EXE">>)
    /\ sbCall.out = "PermissionError"

(***************************************************************************)
(* Claims about the handler's state and its errors (specification Spec)    *)
(***************************************************************************)
\* handle_message ran in this step
HandledNow == reply.kind = "idle" /\ reply'.kind # "idle"

\* the methods whose handlers ran while message m was handled with outcome r
HandledMethods(m, r) ==
    { strip(m.items[r.trace[i].idx].method.text) :
        i \in {j \in DOMAIN r.trace : r.trace[j].ran} }

\* C27: the handler starts not initialized; initialize returns the
\* protocolVersion/capabilities/serverInfo result and leaves the flag as it
\* was; the initialized method sets it; nothing else changes it, and once
\* true it stays true.
C27_InitializedStateMachine ==
    /\ initialized = FALSE
    /\ [][ /\ initialized => initialized'
           /\ ~HandledNow => initialized' = initialized
           /\ HandledNow =>
                 LET ms == HandledMethods(msg', reply') IN
                 /\ <<"initialized">> \in ms => initialized'
                 /\ <<"initialized">> \notin ms => initialized' = initialized
                 /\ (/\ msg'.kind = "single"
                     /\ ms = {<<"initialize">>}
                     /\ msg'.items[1].id # Null) =>
                        /\ reply'.kind = "single"
                        /\ reply'.responses[1].result = ObjResult("initialize")
                        /\ reply'.responses[1].error = NoError
         ]_vars

\* an initialize request with parameters was answered and the handler is
\* still not initialized
C27_Witness ==
    /\ msg.kind = "single"
    /\ msg.items[1] = Obj("2.0", "1", MInitialize, PInit, EnvOk)
    /\ reply.kind = "single"
    /\ reply.responses[1].result = ObjResult("initialize")
    /\ client_capabilities = "peer"
    /\ ~initialized

\* C28: the message of every INTERNAL_ERROR response is the generic one,
\* whatever the text of the exception behind it.
C28_GenericInternalError ==
    Dispatched =>
        \A i \in DOMAIN reply.responses :
            reply.responses[i].error.code = INTERNAL_ERROR =>
                reply.responses[i].error.message = DefaultMessage(INTERNAL_ERROR)

\* the single message is a valid notifications/cancelled envelope
IsCancel(m) ==
    /\ m.kind = "single"
    /\ model_validate_ok(m.items[1])
    /\ strip(m.items[1].method.text) = <<"notifications/cancelled">>

Permitted(raw) ==
    /\ ~UnderSome(resolve(raw), blocked_paths)
    /\ allowed_paths = <<>> \/ UnderSome(resolve(raw), allowed_paths)

ResetCall(c) == rlRet'.op = "reset" /\ rlRet'.client = c /\ now' = now

\* C31: reset(client) leaves the client's bucket empty and every other
\* client's bucket as it was, whatever the bucket held; a second reset right
\* after the first changes nothing.
C31_ResetIdempotent ==
    [][\A c \in Clients :
          ResetCall(c) =>
              /\ Requests(buckets', c) = <<>>
              /\ \A d \in Clients \ {c} : Requests(buckets', d) = Requests(buckets, d)
              /\ (rlRet.op = "reset" /\ rlRet.client = c) => buckets' = buckets]_vars

\* client1 was reset while client2's bucket is full
C31_Witness ==
    /\ rlRet.op = "reset"
    /\ rlRet.client = "client1"
    /\ Requests(buckets, "client1") = <<>>
    /\ Len(Requests(buckets, "client2")) = MaxRequests

\* this step is a call of is_allowed(c) that was rejected
RejectedCall(c) ==
    /\ rlRet'.op = "is_allowed"
    /\ rlRet'.client = c
    /\ rlRet'.ret = FALSE
    /\ now' = now

\* the moment the oldest timestamp in c's window expires
AdmittedAgainAt(bk, c, t) == t + get_reset_time(bk, c, t).ret

\* C34: a rejected is_allowed call records nothing: the timestamps of the
\* client's bucket that are inside the window are the same before and after
\* it, and so is the moment at which the client is admitted again.
C34_RejectedNotRecorded ==
    [][\A c \in Clients :
          RejectedCall(c) =>
              /\ Unexpired(Requests(buckets', c), now) = Unexpired(Requests(buckets, c), now)
              /\ \A i \in 1..Len(Requests(buckets', c)) : Requests(buckets', c)[i] # now
                    \/ \E j \in 1..Len(Requests(buckets, c)) : Requests(buckets, c)[j] = now
              /\ AdmittedAgainAt(buckets', c, now) = AdmittedAgainAt(buckets, c, now)]_vars

\* client1 was rejected at a time later than every timestamp in its full bucket
C34_Witness ==
    /\ rlRet.op = "is_allowed"
    /\ rlRet.client = "client1"
    /\ rlRet.ret = FALSE
    /\ Len(Requests(buckets, "client1")) = MaxRequests
    /\ \A i \in 1..MaxRequests : Requests(buckets, "client1")[i] < now
    /\ AdmittedAgainAt(buckets, "client1", now) > now

(***************************************************************************)
(* Claims about credentials and the key table (specification SpecAuth)     *)
(***************************************************************************)
\* C35: with require_auth true, a non-empty API key decides the outcome alone:
\* success with the key's client when the key is in the table, otherwise
\* "Invalid API key", whatever the bearer token is; the bearer token decides
\* only when no non-empty API key was given.
C35_ApiKeyFirst ==
    (Authenticated /\ require_auth) =>
        /\ Truthy(authRet.api_key) =>
              IF authRet.api_key.s \in DOMAIN api_keys
              THEN /\ authRet.authenticated
                   /\ authRet.client_id = api_keys[authRet.api_key.s]
              ELSE /\ ~authRet.authenticated
                   /\ authRet.error = "Invalid API key"
        /\ authRet.error = "Invalid bearer token" => ~Truthy(authRet.api_key)
        /\ (~Truthy(authRet.api_key) /\ Truthy(authRet.bearer_token)) =>
              authRet.authenticated = (BearerKey(authRet.bearer_token.s) \in DOMAIN api_keys)

\* an unknown API key was refused although the bearer token names a known key
C35_Witness ==
    /\ Authenticated
    /\ require_auth
    /\ authRet.api_key = Str(<<"k2">>)
    /\ <<"k2">> \notin DOMAIN api_keys
    /\ authRet.bearer_token = Str(<<"Bearer ", "k1">>)
    /\ <<"k1">> \in DOMAIN api_keys
    /\ ~authRet.authenticated
    /\ authRet.error = "Invalid API key"

\* the writes of key k that no remove has undone
LiveWrites(k) == {w \in lastWrite : w.key = k}

\* authenticate was called with k as the API key and nothing else
AuthenticatedWith(k) ==
    /\ Authenticated
    /\ require_auth
    /\ authRet.api_key = Str(k)
    /\ authRet.bearer_token = Absent

\* remove_api_key returns true exactly when the key was present
RemoveReturnsPresence ==
    [][(authRet.op = "idle" /\ authRet'.op = "remove_api_key") =>
          authRet'.authenticated = (LiveWrites(authRet'.api_key.s) # {})]_vars

Registered(name) == {w \in lastRegistered : w.name = name}

\* what safe_execute hands back for an execute that behaves as `out`
ThroughSafeExecute(out) ==
    CASE out = "ok_str" -> ToolResult(TRUE, "str", "")
      [] out = "fail" -> ToolResult(FALSE, "none", "tool failed")
      [] out = "PermissionError" -> ToolResult(FALSE, "none", "Permission denied: ...")
      [] OTHER -> ToolResult(FALSE, "none", "Execution error: ...")

\* unregister returns true exactly when the name was registered
UnregisterReturnsPresence ==
    [][(regCall.op = "idle" /\ regCall'.op = "unregister") =>
          /\ regCall'.ret = (Registered(regCall'.name) # {})
          /\ \A w \in lastRegistered' : w.name # regCall'.name]_vars

\* C37: the name table holds, for every name, exactly the tool most recently
\* registered under it and not unregistered since; execute_tool returns the
\* failed result "Tool not found" exactly when the name is not in it, and
\* otherwise hands the call to that tool's safe_execute, so that what the
\* tool's execute raises comes back as a failed ToolResult; unregister
\* returns true exactly when the name was registered.
C37_RegistryTable ==
    /\ [](/\ \A n \in CalledNames :
                /\ (n \in DOMAIN registry) = (Registered(n) # {})
                /\ n \in DOMAIN registry =>
                      Registered(n) = {[name |-> n, version |-> registry[n].version]}
          /\ regCall.op = "execute_tool" =>
                IF Registered(regCall.name) = {}
                THEN /\ regCall.result = ToolResult(FALSE, "none", "Tool not found: ...")
                     /\ regCall.version = 0
                ELSE /\ [name |-> regCall.name, version |-> regCall.version] \in lastRegistered
                     /\ regCall.result.error # "Tool not found: ..."
                     /\ regCall.arguments = "{}" =>
                           regCall.result = ThroughSafeExecute(ExecuteOf(regCall.version)))
    /\ UnregisterReturnsPresence

\* read_file was registered a second time with a tool whose execute raises
\* PermissionError: execute_tool ran that one and returned a failed result
C37_Witness ==
    /\ regCall.op = "execute_tool"
    /\ regCall.name = "read_file"
    /\ regCall.arguments = "{}"
    /\ regCall.version = 2
    /\ Registered("read_file") = {[name |-> "read_file", version |-> 2]}
    /\ regCall.result = ToolResult(FALSE, "none", "Permission denied: ...")

(***************************************************************************)
(* Claims about the cost of a message and the ids of replies               *)
(* (specification Spec)                                                    *)
(***************************************************************************)
\* C39: a call of handle_message adds exactly one timestamp, the time of the
\* call, to the caller's bucket when the caller is admitted and none when it
\* is rejected, whatever the body is: a batch, text that is no JSON and an
\* invalid request each cost one.
C39_OneUnitPerMessage ==
    [][HandledNow =>
          LET c == reply'.client
              kept == Unexpired(Requests(buckets, c), now)
          IN
          /\ Requests(buckets', c) = (IF reply'.admitted THEN Append(kept, now) ELSE kept)
          /\ reply'.admitted = (Len(kept) < MaxRequests)
          /\ \A d \in DOMAIN buckets \ {c} : Requests(buckets', d) = Requests(buckets, d)
      ]_vars

\* the first message of the caller is a batch of two: one timestamp is recorded
C39_Witness ==
    /\ msg.kind = "batch"
    /\ Len(msg.items) = 2
    /\ reply.admitted
    /\ Len(reply.trace) = 2
    /\ Len(Requests(buckets, reply.client)) = 1

\* C40: what is returned for a well-formed request with an id from an
\* admitted caller carries that request's id, alone and inside a batch, where
\* the replies are those of the elements with an id in their order; the
\* replies to a rate-limited caller and to text that is no JSON carry id null.
C40_ReplyIds ==
    /\ Dispatched =>
          /\ \A i \in 1..Len(reply.trace) :
                LET e == msg.items[reply.trace[i].idx] IN
                (model_validate_ok(e) /\ e.id # Null) =>
                    /\ ~reply.trace[i].resp.none
                    /\ reply.trace[i].resp.id = e.id
          /\ reply.kind \in {"single", "batch"} => reply.responses = Returns(reply.trace)
    /\ Rejected =>
          /\ Len(reply.responses) = 1
          /\ reply.responses[1].id = Null
    /\ (msg.kind = "garbage" /\ reply.admitted) =>
          /\ Len(reply.responses) = 1
          /\ reply.responses[1].id = Null

\* a batch of two requests with different ids is answered under both ids, in order
C40_Witness ==
    /\ Dispatched
    /\ msg.kind = "batch"
    /\ Len(msg.items) = 2
    /\ msg.items[1].id = "1"
    /\ msg.items[2].id = "2"
    /\ reply.kind = "batch"
    /\ Len(reply.responses) = 2
    /\ reply.responses[1].id = "1"
    /\ reply.responses[2].id = "2"
    /\ reply.responses[2].error.isNone

(***************************************************************************)
(* Claims about cancellation and shutdown (specifications SpecCancel and   *)
(* SpecStdioFair)                                                          *)
(***************************************************************************)
\* C32: when notifications/cancelled names a request that is in flight, the
\* handler has called cancel() on that request's task.
C32_CancelReachesTask ==
    (cxCall.op = "cancelled" /\ cxCall.id \in inflight) =>
        cxCall.id \in cancel_requested

\* stop() was called on a server whose read loop has not ended
Stopping == ~running /\ loop.pc \in {"header", "blank", "content"}

\* C38: after stop() the read loop eventually ends, whatever it is waiting for.
C38_StopEndsLoop == Stopping ~> (loop.pc = "exited")

(***************************************************************************)
(* Claims about is_allowed called from threads (specification SpecThreads) *)
(***************************************************************************)
\* the calls admitted for the client of admitted[i] whose recorded time lies
\* in the window that ends with admitted[i]
AdmittedInWindow(i) ==
    {j \in 1..Len(admitted) : /\ admitted[j].client = admitted[i].client
                              /\ admitted[j].t <= admitted[i].t
                              /\ admitted[j].t > admitted[i].t - WindowSeconds}

\* C33: in every interleaving of is_allowed calls made side by side for one
\* client, first calls that create the bucket included, at most max_requests
\* calls are admitted within any single window
C33_SerializedAdmission ==
    \A i \in 1..Len(admitted) : Cardinality(AdmittedInWindow(i)) <= MaxRequests

====
